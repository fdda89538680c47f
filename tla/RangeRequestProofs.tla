-------------------------- MODULE RangeRequestProofs --------------------------
(***************************************************************************)
(* Theorems about RangeRequest: parse_range is exact for every size, and a  *)
(* copy resumed with the ETag is of one version.                            *)
(***************************************************************************)
EXTENDS RangeRequest, TLAPS

-----------------------------------------------------------------------------
\* A well-formed range selects exactly its positions, or is unsatisfiable if
\* there are none; any other selects nothing (parse_range, web.rs:1402-1438).
LEMMA ParseRangeExact ==
    ASSUME NEW spec \in RangeSpec, NEW total \in Nat
    PROVE  IF WellFormed(spec)
           THEN IF Positions(spec, total) = {}
                THEN ParseRange(spec, total) = Unsatisfiable
                ELSE /\ ParseRange(spec, total).kind = "satisfiable"
                     /\ ParseRange(spec, total).start..ParseRange(spec, total).end
                          = Positions(spec, total)
           ELSE ParseRange(spec, total).kind # "satisfiable"
<1> DEFINE a == spec.first
           b == spec.last
           chosen == ParseRange(spec, total)
<1>0. /\ a \in Ends /\ b \in Ends
      /\ \A e \in Ends : IsNumber(e) => e \in Nat
      /\ \A e \in Ends : IsNumber(e) <=> e # Absent /\ e # Malformed
  BY RangeAssumption DEF RangeSpec, Ends, IsNumber
<1>1. CASE ~WellFormed(spec)
  BY <1>0, <1>1, RangeAssumption
     DEF WellFormed, ParseRange, ParseSuffix, IsNumber, Ignore, Unsatisfiable,
         Satisfiable, Ends, RangeSpec
<1>2. CASE WellFormed(spec) /\ a = Absent
  <2>1. b \in Nat /\ chosen = ParseSuffix(b, total)
    BY <1>0, <1>2, RangeAssumption DEF WellFormed, ParseRange
  <2>2. Positions(spec, total) = {i \in 0..(total - 1) : i >= total - b}
    BY <1>2 DEF Positions
  <2>3. CASE b = 0 \/ total = 0
    <3>1. chosen = Unsatisfiable
      BY <2>1, <2>3 DEF ParseSuffix
    <3>2. Positions(spec, total) = {}
      BY <2>1, <2>2, <2>3
    <3> QED BY <1>2, <3>1, <3>2
  <2>4. CASE b # 0 /\ total # 0
    <3>1. chosen = Satisfiable(total - Least(b, total), total - 1)
      BY <2>1, <2>4 DEF ParseSuffix
    <3>2. /\ chosen.kind = "satisfiable"
          /\ chosen.start = total - Least(b, total)
          /\ chosen.end = total - 1
      BY <3>1 DEF Satisfiable
    <3>3. (total - Least(b, total))..(total - 1) = Positions(spec, total)
      BY <2>1, <2>2 DEF Least
    <3>4. total - 1 \in Positions(spec, total)
      BY <2>1, <2>2, <2>4
    <3> QED BY <1>2, <3>2, <3>3, <3>4
  <2> QED BY <2>3, <2>4
<1>3. CASE WellFormed(spec) /\ a # Absent
  <2>1. /\ a \in Nat
        /\ b = Absent \/ (b \in Nat /\ a <= b)
        /\ spec.unit = "bytes" /\ ~spec.several /\ spec.dash
        /\ a # Absent /\ a # Malformed /\ b # Malformed
    BY <1>0, <1>3, RangeAssumption DEF WellFormed
  <2>2. Positions(spec, total) =
          {i \in 0..(total - 1) : i >= a /\ (b # Absent => i <= b)}
    BY <1>0, <1>3, <2>1 DEF Positions
  <2>3. CASE a >= total
    <3>1. chosen = Unsatisfiable
      BY <2>1, <2>3 DEF ParseRange
    <3>2. Positions(spec, total) = {}
      BY <2>1, <2>2, <2>3
    <3> QED BY <1>3, <3>1, <3>2
  <2>4. CASE a < total /\ b = Absent
    <3>1. chosen = Satisfiable(a, total - 1)
      BY <2>1, <2>4 DEF ParseRange
    <3>2. chosen.kind = "satisfiable" /\ chosen.start = a /\ chosen.end = total - 1
      BY <3>1 DEF Satisfiable
    <3>3. a..(total - 1) = Positions(spec, total)
      BY <2>1, <2>2, <2>4
    <3>4. a \in Positions(spec, total)
      BY <2>1, <2>2, <2>4
    <3> QED BY <1>3, <3>2, <3>3, <3>4
  <2>5. CASE a < total /\ b # Absent
    <3>1. b \in Nat /\ a <= b
      BY <2>1, <2>5
    <3>2. chosen = Satisfiable(a, Least(b, total - 1))
      BY <2>1, <2>5, <3>1 DEF ParseRange
    <3>3. /\ chosen.kind = "satisfiable" /\ chosen.start = a
          /\ chosen.end = Least(b, total - 1)
      BY <3>2 DEF Satisfiable
    <3>4. a..Least(b, total - 1) = Positions(spec, total)
      BY <2>1, <2>2, <2>5, <3>1 DEF Least
    <3>5. a \in Positions(spec, total)
      BY <2>1, <2>2, <2>5, <3>1
    <3> QED BY <1>3, <3>3, <3>4, <3>5
  <2> QED BY <2>1, <2>3, <2>4, <2>5
<1> QED BY <1>1, <1>2, <1>3

-----------------------------------------------------------------------------
(***************************************************************************)
(* The inductive invariant.  A response being received is of the version    *)
(* whose ETag the copy has, and begins where the copy ends; this is what    *)
(* if_range_matches and parse_range establish together and what every byte  *)
(* received keeps.                                                          *)
(***************************************************************************)
Rep == [tag : Versions, date : (0..MaxTime) \cup {None}, total : Nat]
Response == [status : {200, 206}, start : Nat, length : Nat, rep : Rep]

CopyOfOne ==
    /\ client.from \subseteq {client.tag}
    /\ client.tag = None => client.have = 0 /\ client.from = {} /\ ~client.whole
    /\ client.tag # None => client.have <= size[client.tag]
    /\ client.whole => client.have = size[client.tag]

Continues ==
    transfer # None =>
        /\ transfer \in Response
        /\ transfer.rep.tag = client.tag
        /\ transfer.rep.total = size[client.tag]
        /\ transfer.start = client.have
        /\ transfer.start + transfer.length = transfer.rep.total

Types ==
    /\ clock \in 0..MaxTime
    /\ size \in [Versions -> 0..MaxSize]
    /\ deployed \in Versions
    /\ built \in [Versions -> (0..MaxTime) \cup {None}]
    /\ client \in [tag : Versions \cup {None}, date : (0..MaxTime) \cup {None},
                   have : 0..MaxSize, from : SUBSET Versions, whole : BOOLEAN]

IInv == Types /\ CopyOfOne /\ Continues

\* The answer to a request for everything, and to one for what follows the
\* first n bytes (serve_representation, web.rs:1245-1348).
LEMMA ServeRest ==
    ASSUME NEW rep \in Rep, NEW n \in Nat
    PROVE  /\ Serve(rep, From(n), FALSE)
                = [status |-> 200, start |-> 0, length |-> rep.total, rep |-> rep]
           /\ n < rep.total =>
                Serve(rep, From(n), TRUE)
                  = [status |-> 206, start |-> n, length |-> rep.total - n, rep |-> rep]
           /\ n >= rep.total =>
                Serve(rep, From(n), TRUE)
                  = [status |-> 416, start |-> 0, length |-> 0, rep |-> rep]
<1>1. n # Absent /\ n # Malformed /\ rep.total \in Nat
  BY RangeAssumption DEF Rep
<1>2. Serve(rep, From(n), FALSE)
        = [status |-> 200, start |-> 0, length |-> rep.total, rep |-> rep]
  BY DEF Serve, Ignore
<1>3. ASSUME n < rep.total
      PROVE  Serve(rep, From(n), TRUE)
               = [status |-> 206, start |-> n, length |-> rep.total - n, rep |-> rep]
  <2>1. ParseRange(From(n), rep.total) = Satisfiable(n, rep.total - 1)
    BY <1>1, <1>3 DEF ParseRange, From
  <2>2. /\ ParseRange(From(n), rep.total).kind = "satisfiable"
        /\ ParseRange(From(n), rep.total).start = n
        /\ ParseRange(From(n), rep.total).end = rep.total - 1
    BY <2>1 DEF Satisfiable
  <2>3. (rep.total - 1) - n + 1 = rep.total - n
    BY <1>1
  <2> QED BY <2>2, <2>3 DEF Serve
<1>4. ASSUME n >= rep.total
      PROVE  Serve(rep, From(n), TRUE)
               = [status |-> 416, start |-> 0, length |-> 0, rep |-> rep]
  <2>1. ParseRange(From(n), rep.total) = Unsatisfiable
    BY <1>1, <1>4 DEF ParseRange, From
  <2> QED BY <2>1 DEF Serve, Unsatisfiable
<1> QED BY <1>2, <1>3, <1>4

LEMMA InitIInv == Init => IInv
BY RangeAssumption DEF Init, IInv, Types, CopyOfOne, Continues, NoCopy

\* A 200 with all of the archive that is deployed starts a copy anew
\* (serve_representation, web.rs:1302-1348).
LEMMA NewCopyKeepsIInv ==
    ASSUME IInv, NEW rep \in Rep,
           rep.tag = deployed, rep.total = size[deployed],
           client' = [NoCopy EXCEPT !.tag = rep.tag, !.date = rep.date],
           transfer' = [status |-> 200, start |-> 0, length |-> rep.total, rep |-> rep],
           UNCHANGED <<clock, size, deployed, built>>
    PROVE  IInv'
<1>1. rep.tag # None /\ rep.tag \in Versions
  BY RangeAssumption DEF IInv, Types
<1>2. /\ client'.tag = rep.tag /\ client'.have = 0 /\ client'.from = {}
      /\ client'.whole = FALSE
      /\ client' \in [tag : Versions \cup {None}, date : (0..MaxTime) \cup {None},
                      have : 0..MaxSize, from : SUBSET Versions, whole : BOOLEAN]
  <2>1. client' = [tag |-> rep.tag, date |-> rep.date, have |-> 0,
                   from |-> {}, whole |-> FALSE]
    BY DEF NoCopy
  <2>2. rep.date \in (0..MaxTime) \cup {None} /\ 0 \in 0..MaxSize
    BY RangeAssumption DEF Rep
  <2>3. /\ client'.tag = rep.tag /\ client'.have = 0 /\ client'.from = {}
        /\ client'.whole = FALSE
    BY ONLY <2>1
  <2>4. client' \in [tag : Versions \cup {None}, date : (0..MaxTime) \cup {None},
                     have : 0..MaxSize, from : SUBSET Versions, whole : BOOLEAN]
    BY ONLY <1>1, <2>1, <2>2
  <2> QED BY <2>3, <2>4
<1>3. Types'
  BY <1>2 DEF IInv, Types
<1>4. CopyOfOne'
  BY <1>1, <1>2, RangeAssumption DEF IInv, Types, CopyOfOne
<1>5. Continues'
  <2>1. rep.total \in Nat
    BY DEF Rep
  <2>2. transfer' \in Response
    BY <2>1 DEF Response
  <2>3. /\ transfer'.rep = rep /\ transfer'.start = 0
        /\ transfer'.length = rep.total
    OBVIOUS
  <2> QED BY <1>2, <2>1, <2>2, <2>3 DEF Continues
<1> QED BY <1>3, <1>4, <1>5 DEF IInv

\* Asking again for a whole copy keeps the invariant.
LEMMA RevalidateKeepsIInv ==
    ASSUME IInv, Revalidate
    PROVE  IInv'
<1> DEFINE rep == Representation
<1>1. /\ transfer = None
      /\ UNCHANGED <<clock, size, deployed, built>>
      /\ IF NotModified({client.tag}, rep)
         THEN UNCHANGED <<client, transfer>>
         ELSE /\ client' = [NoCopy EXCEPT !.tag = rep.tag, !.date = rep.date]
              /\ transfer' = Serve(rep, From(0), FALSE)
  BY DEF Revalidate
<1>2. rep \in Rep /\ rep.tag = deployed /\ rep.total = size[deployed]
  BY RangeAssumption DEF IInv, Types, Representation, Rep
<1> HIDE DEF rep
<1>3. CASE NotModified({client.tag}, rep)
  BY <1>1, <1>3 DEF IInv, Types, CopyOfOne, Continues
<1>4. CASE ~NotModified({client.tag}, rep)
  <2>1. Serve(rep, From(0), FALSE)
          = [status |-> 200, start |-> 0, length |-> rep.total, rep |-> rep]
    BY <1>2, ServeRest
  <2> QED BY <1>1, <1>2, <1>4, <2>1, NewCopyKeepsIInv
<1> QED BY <1>3, <1>4

\* A request, with the ETag for validator, keeps the invariant.
LEMMA RequestKeepsIInv ==
    ASSUME IInv, Request("etag")
    PROVE  IInv'
<1> DEFINE rep == Representation
           response ==
             IF client.tag = None \/ client.have = 0
             THEN Serve(rep, From(0), FALSE)
             ELSE Serve(rep, From(client.have), IfRangeMatches("etag", rep))
<1>0. /\ transfer = None /\ ~client.whole
      /\ UNCHANGED <<clock, size, deployed, built>>
      /\ CASE response.status = 200 ->
                /\ client' = [NoCopy EXCEPT !.tag = rep.tag, !.date = rep.date]
                /\ transfer' = response
           [] response.status = 206 ->
                /\ transfer' = response
                /\ UNCHANGED client
           [] response.status = 416 ->
                /\ client' = IF client.have = rep.total
                             THEN [client EXCEPT !.whole = TRUE] ELSE NoCopy
                /\ UNCHANGED transfer
  BY DEF Request
<1>2. /\ rep \in Rep /\ rep.tag = deployed /\ rep.total = size[deployed]
      /\ rep.total \in 0..MaxSize
      /\ client.have \in Nat
  BY RangeAssumption DEF IInv, Types, Representation, Rep
<1>3. response = IF client.tag = None \/ client.have = 0
                 THEN Serve(rep, From(0), FALSE)
                 ELSE Serve(rep, From(client.have), IfRangeMatches("etag", rep))
  OBVIOUS
<1> HIDE DEF rep, response
<1>1. /\ response.status = 200 =>
            /\ client' = [NoCopy EXCEPT !.tag = rep.tag, !.date = rep.date]
            /\ transfer' = response
      /\ response.status = 206 => transfer' = response /\ client' = client
      /\ response.status = 416 =>
            /\ client' = IF client.have = rep.total
                         THEN [client EXCEPT !.whole = TRUE] ELSE NoCopy
            /\ transfer' = transfer
  <2>1. CASE response.status = 200
    BY <1>0, <2>1
  <2>2. CASE response.status = 206
    BY <1>0, <2>2
  <2>3. CASE response.status = 416
    BY <1>0, <2>3
  <2> QED BY <2>1, <2>2, <2>3
<1>4. rep.tag # None
  BY <1>2, RangeAssumption DEF IInv, Types
<1>5. CASE client.tag = None \/ client.have = 0 \/ client.tag # rep.tag
  <2>1. response
          = [status |-> 200, start |-> 0, length |-> rep.total, rep |-> rep]
    <3>0. /\ 0 \in Nat /\ client.have \in Nat /\ rep \in Rep
          /\ \A n \in Nat :
                Serve(rep, From(n), FALSE)
                  = [status |-> 200, start |-> 0, length |-> rep.total, rep |-> rep]
      BY <1>2, ServeRest
    <3>1. CASE client.tag = None \/ client.have = 0
      BY <1>3, <3>0, <3>1
    <3>2. CASE ~(client.tag = None \/ client.have = 0)
      <4>1. IfRangeMatches("etag", rep) = FALSE
        BY <1>5, <3>2 DEF IfRangeMatches
      <4> QED BY <1>3, <3>0, <3>2, <4>1
    <3> QED BY <3>1, <3>2
  <2>2. /\ client' = [NoCopy EXCEPT !.tag = rep.tag, !.date = rep.date]
        /\ transfer' = response
    BY <1>0, <1>1, <2>1
  <2> QED BY <1>0, <1>2, <2>1, <2>2, NewCopyKeepsIInv
<1>6. CASE ~(client.tag = None \/ client.have = 0 \/ client.tag # rep.tag)
  <2>1. client.tag = rep.tag /\ client.have <= rep.total
    BY <1>2, <1>4, <1>6 DEF IInv, CopyOfOne
  <2>2. response = Serve(rep, From(client.have), TRUE)
    <3>1. IfRangeMatches("etag", rep) = TRUE
      BY <2>1 DEF IfRangeMatches
    <3> QED BY <1>3, <1>6, <3>1
  <2>3. CASE client.have < rep.total
    <3>1. response = [status |-> 206, start |-> client.have,
                      length |-> rep.total - client.have, rep |-> rep]
      BY <1>2, <2>2, <2>3, ServeRest
    <3>2. transfer' = response /\ client' = client
      BY <1>0, <1>1, <3>1
    <3>3. Types' /\ CopyOfOne'
      BY <1>0, <1>1, <3>2 DEF IInv, Types, CopyOfOne
    <3>4. transfer' \in Response
      BY <1>2, <2>3, <3>1, <3>2 DEF Response
    <3>5. /\ transfer'.rep = rep /\ transfer'.start = client.have
          /\ transfer'.length = rep.total - client.have
      BY <3>1, <3>2
    <3>6. Continues'
      BY <1>0, <1>1, <1>2, <2>1, <2>3, <3>2, <3>4, <3>5 DEF Continues
    <3> QED BY <3>3, <3>6 DEF IInv
  <2>4. CASE client.have >= rep.total
    <3>1. response = [status |-> 416, start |-> 0, length |-> 0, rep |-> rep]
      BY <1>2, <2>2, <2>4, ServeRest
    <3>2. client.have = rep.total
      BY <1>2, <2>1, <2>4
    <3>3. client' = [client EXCEPT !.whole = TRUE] /\ transfer' = None
      BY <1>0, <1>1, <3>1, <3>2
    <3>4. Types' /\ CopyOfOne'
      BY <1>0, <1>1, <1>2, <1>4, <2>1, <3>2, <3>3 DEF IInv, Types, CopyOfOne
    <3> QED BY <3>3, <3>4 DEF IInv, Continues
  <2> QED BY <1>2, <2>3, <2>4
<1> QED BY <1>5, <1>6

LEMMA ReceiveKeepsIInv ==
    ASSUME IInv, NEW n \in 1..MaxSize, Receive(n)
    PROVE  IInv'
<1>1. /\ transfer # None /\ n \in 1..transfer.length
      /\ client' = [client EXCEPT !.have = @ + n, !.from = @ \cup {transfer.rep.tag}]
      /\ transfer' = [transfer EXCEPT !.start = @ + n, !.length = @ - n]
      /\ UNCHANGED <<clock, size, deployed, built>>
  BY DEF Receive
<1>2. /\ transfer \in Response /\ transfer.rep \in Rep
      /\ transfer.rep.tag = client.tag /\ client.tag \in Versions
      /\ transfer.start = client.have
      /\ transfer.start + transfer.length = size[client.tag]
      /\ transfer.rep.total = size[client.tag]
      /\ size[client.tag] \in 0..MaxSize
      /\ transfer.start \in Nat /\ transfer.length \in Nat
      /\ client.tag # None
  BY <1>1, RangeAssumption DEF IInv, Types, Continues, Response, Rep
<1>3. /\ client'.tag = client.tag /\ client'.have = client.have + n
      /\ client'.from = client.from \cup {client.tag}
      /\ client'.whole = client.whole
      /\ client'.have \in 0..MaxSize /\ client'.have <= size[client.tag]
  BY <1>1, <1>2, RangeAssumption DEF IInv, Types
<1>4. ~client.whole
  BY <1>1, <1>2, RangeAssumption DEF IInv, CopyOfOne
<1>5. Types'
  BY <1>1, <1>2, <1>3 DEF IInv, Types
<1>6. CopyOfOne'
  BY <1>1, <1>2, <1>3, <1>4 DEF IInv, CopyOfOne
<1>7. Continues'
  <2>1. /\ transfer' \in Response /\ transfer'.rep = transfer.rep
        /\ transfer'.start = transfer.start + n
        /\ transfer'.length = transfer.length - n
    <3>1. transfer.start + n \in Nat /\ transfer.length - n \in Nat
      BY <1>1, <1>2
    <3>2. transfer' = [status |-> transfer.status, start |-> transfer.start + n,
                       length |-> transfer.length - n, rep |-> transfer.rep]
      BY <1>1, <1>2 DEF Response
    <3>3. transfer.status \in {200, 206}
      BY <1>2 DEF Response
    <3> QED BY <1>2, <3>1, <3>2, <3>3 DEF Response
  <2> QED BY <1>1, <1>2, <1>3, <2>1 DEF Continues
<1> QED BY <1>5, <1>6, <1>7 DEF IInv

LEMMA FinishKeepsIInv ==
    ASSUME IInv, Finish
    PROVE  IInv'
<1>1. /\ transfer # None /\ transfer.length = 0 /\ transfer' = None
      /\ client' = [client EXCEPT !.whole = client.have = transfer.rep.total]
      /\ UNCHANGED <<clock, size, deployed, built>>
  BY DEF Finish
<1>2. /\ transfer.rep.total = size[client.tag] /\ client.tag \in Versions
      /\ client.tag # None
  BY <1>1, RangeAssumption DEF IInv, Types, Continues, Response, Rep
<1>3. /\ client'.tag = client.tag /\ client'.have = client.have
      /\ client'.from = client.from
      /\ client'.whole = (client.have = size[client.tag])
  BY <1>1, <1>2 DEF IInv, Types
<1>4. Types'
  BY <1>1, <1>2 DEF IInv, Types
<1>5. CopyOfOne'
  BY <1>1, <1>2, <1>3 DEF IInv, CopyOfOne
<1> QED BY <1>1, <1>4, <1>5 DEF IInv, Continues

LEMMA NextKeepsIInv ==
    ASSUME Validators \subseteq {"etag"}, IInv, [Next]_vars
    PROVE  IInv'
<1>1. ASSUME NEW v \in Versions, Deploy(v)
      PROVE  IInv'
  <2>1. Types'
    BY <1>1, RangeAssumption DEF Deploy, IInv, Types
  <2> QED BY <1>1, <2>1 DEF Deploy, IInv, CopyOfOne, Continues
<1>2. CASE Rebuild
  <2>1. Types'
    BY <1>2, RangeAssumption DEF Rebuild, IInv, Types
  <2> QED BY <1>2, <2>1 DEF Rebuild, IInv, CopyOfOne, Continues
<1>3. ASSUME NEW validator \in Validators, Request(validator)
      PROVE  IInv'
  BY <1>3, RequestKeepsIInv
<1>4. ASSUME NEW n \in 1..MaxSize, Receive(n)
      PROVE  IInv'
  BY <1>4, ReceiveKeepsIInv
<1>5. CASE Finish
  BY <1>5, FinishKeepsIInv
<1>6. CASE Break
  BY <1>6 DEF Break, IInv, Types, CopyOfOne, Continues
<1>7. CASE Revalidate
  BY <1>7, RevalidateKeepsIInv
<1>8. CASE UNCHANGED vars
  BY <1>8 DEF vars, IInv, Types, CopyOfOne, Continues
<1> QED BY <1>1, <1>2, <1>3, <1>4, <1>5, <1>6, <1>7, <1>8 DEF Next

(***************************************************************************)
(* A copy, a response on its way and the version it is of agree in every   *)
(* state, for clients that resume with the ETag.                           *)
(***************************************************************************)
THEOREM Invariance ==
    ASSUME Validators \subseteq {"etag"}
    PROVE  Spec => []IInv
<1>1. IInv /\ [Next]_vars => IInv'
  BY NextKeepsIInv
<1> QED BY InitIInv, <1>1, PTL DEF Spec

-----------------------------------------------------------------------------
(***************************************************************************)
(* The variables of RangeRequest have their types; in particular what is    *)
(* left of a response never exceeds the archive.                            *)
(***************************************************************************)
THEOREM TypeCorrect ==
    ASSUME Validators \subseteq {"etag"}
    PROVE  Spec => []TypeOK
<1>1. ASSUME IInv PROVE TypeOK
  <2>1. ASSUME transfer # None PROVE transfer.length \in 0..MaxSize
    <3>1. /\ transfer.start \in Nat /\ transfer.length \in Nat
          /\ transfer.rep \in Rep
          /\ transfer.start + transfer.length = size[client.tag]
          /\ client.tag = transfer.rep.tag
      BY <1>1, <2>1 DEF IInv, Continues, Response
    <3>2. size[client.tag] \in 0..MaxSize
      BY <1>1, <3>1 DEF IInv, Types, Rep
    <3> QED BY <3>1, <3>2, RangeAssumption
  <2> QED BY <1>1, <2>1 DEF IInv, Types, TypeOK
<1> QED BY <1>1, Invariance, PTL

(***************************************************************************)
(* For every size of every archive and every Range header, parse_range is   *)
(* exact; sizes never change, so this needs no more of the behaviour.       *)
(***************************************************************************)
THEOREM RangesAreAlwaysExact ==
    ASSUME Validators \subseteq {"etag"}
    PROVE  Spec => []RangesAreExact
<1>1. ASSUME IInv PROVE RangesAreExact
  <2>1. \A v \in Versions : size[v] \in Nat
    BY <1>1, RangeAssumption DEF IInv, Types
  <2> QED BY <2>1, ParseRangeExact DEF RangesAreExact
<1> QED BY <1>1, Invariance, PTL

(***************************************************************************)
(* A client that resumes with the ETag holds bytes of one version only, and *)
(* all of them once it takes its copy for whole, for any number of          *)
(* versions, sizes, deployments and broken connections.                     *)
(***************************************************************************)
THEOREM ResumedCopiesAreHonest ==
    ASSUME Validators \subseteq {"etag"}
    PROVE  Spec => []CopiesAreHonest
<1>1. IInv => CopiesAreHonest
  BY DEF IInv, CopyOfOne, CopiesAreHonest
<1> QED BY <1>1, Invariance, PTL

(***************************************************************************)
(* What is received next continues the copy: no byte is skipped or repeated *)
(* by serve_representation, wherever the connection broke.                  *)
(***************************************************************************)
THEOREM TransfersContinueCopies ==
    ASSUME Validators \subseteq {"etag"}
    PROVE  Spec => []TransferContinuesCopy
<1>1. IInv => TransferContinuesCopy
  BY DEF IInv, Continues, TransferContinuesCopy
<1> QED BY <1>1, Invariance, PTL
=============================================================================
