----------------------------- MODULE StoresProofs ------------------------------
(***************************************************************************)
(* Proofs about the two stores of the search service.                      *)
(*                                                                         *)
(* HistoryStores, for every set of databases, servers and searches and     *)
(* every number of saves, faults and images: a database is sound, a read   *)
(* shows a whole history, and a deletion is final.                         *)
(*                                                                         *)
(* UsageLedger, for every set of providers, owners, sessions and amounts,  *)
(* every policy and every order of the clock's readings: what becomes of a *)
(* reservation, what the sum of a scope is, and that the limits hold and   *)
(* every snapshot can be restored.                                         *)
(***************************************************************************)
EXTENDS HistoryStores, UsageLedger, SequenceTheorems, FiniteSetTheorems,
        FunctionTheorems, WellFoundedInduction, TLAPS

-----------------------------------------------------------------------------
(* Histories: the inductive invariant *)

\* The image row of a history's i-th image.
ImageOf(r, i) == [hid |-> r.hid, pos |-> i, loc |-> <<r.loc, i>>,
                  body |-> <<r.search, r.payload.images[i]>>]

\* A row that a save of this repository inserted, or the copied one.
RowOk(r) ==
    /\ r.loc \in 0..(fresh - 1) /\ r.at \in Nat
    /\ r.search \in Searches /\ r.payload = Snapshot(ResultOf[r.search])
    /\ ValidWrite(r.payload)
    /\ r.key = Key(r.search, r.at)
    /\ r.refs = [i \in DOMAIN r.payload.images |-> <<r.loc, i>>]
    /\ \/ r.hid = <<r.search>> /\ (kind = "provisional" \/ r.loc = 0)
       \/ r.hid = <<r.search, r.loc>> /\ kind = "typed"

\* A record with the fields of a request.
IsRequest(x) ==
    x = [op |-> x.op, pc |-> x.pc, loc |-> x.loc, now |-> x.now, at |-> x.at,
         row |-> x.row, got |-> x.got, todo |-> x.todo, listed |-> x.listed,
         failed |-> x.failed, gone |-> x.gone]

TypeInv ==
    /\ kind \in {"typed", "provisional"}
    /\ present \subseteq Stores
    /\ fresh \in Nat /\ clock \in Nat
    /\ rows = [d \in Stores |-> rows[d]] /\ images = [d \in Stores |-> images[d]]
    /\ srv = [v \in Servers |-> srv[v]] /\ \A v \in Servers : IsRequest(srv[v])

\* A completion is in a database once, a locator belongs to one history in
\* whatever databases it is, and the image rows are those of the histories.
RowsInv ==
    /\ \A d \in Stores : \A r \in rows[d] : RowOk(r)
    /\ \A d \in Stores : \A r1, r2 \in rows[d] : r1.key = r2.key => r1 = r2
    /\ \A d1, d2 \in Stores : \A r1 \in rows[d1], r2 \in rows[d2] :
          r1.loc = r2.loc => r1 = r2
    /\ \A d \in Stores \ present : rows[d] = {}

ImagesInv ==
    \A d \in Stores : \A x :
        x \in images[d] <=>
            \E r \in rows[d] : \E i \in DOMAIN r.payload.images : x = ImageOf(r, i)

\* The rows that a request has read and goes on with.
Seen(v) ==
    srv[v].todo \cup srv[v].listed
        \cup IF srv[v].op = "get" /\ srv[v].pc # "scan" THEN {srv[v].row} ELSE {}

\* They were unexpired when the request was made, and their locators are
\* nobody else's, also when they were deleted meanwhile.
SeenInv(v) ==
    \A r \in Seen(v) :
        /\ RowOk(r) /\ Expires(r) > srv[v].now
        /\ \A d \in Stores : \A x \in rows[d] : x.loc = r.loc => x = r

\* The bodies read so far are the first images of the row.
GotInv(v) ==
    LET q == srv[v]
    IN  q.op = "get" /\ q.pc # "scan" =>
          /\ Len(q.got) \in 0..Len(q.row.payload.images)
          /\ q.got = [i \in 1..Len(q.got) |->
                        <<q.row.search, q.row.payload.images[i]>>]
          /\ q.pc = "shown" => Len(q.got) = Len(q.row.payload.images)

StageInv(v) ==
    LET q == srv[v]
    IN  /\ q.at \in Nat \ {0} /\ q.pc \in {"scan", "refs", "bodies", "shown"}
        /\ q.pc \in {"refs", "bodies"} =>
              q.op \in {"get", "list"} /\ Db(v) \in Stores
        /\ q.pc \in {"scan", "refs"} => q.got = <<>>

ReadInv == \A v \in Servers : SeenInv(v) /\ GotInv(v) /\ StageInv(v)

IInv == TypeInv /\ RowsInv /\ ImagesInv /\ ReadInv

\* The servers have the same databases.
SameDatabases == \A v, w \in Servers : Paths[v] = Paths[w]

\* A deletion has been through the databases before the one it is at.
Cleared(v) ==
    srv[v].op = "delete" =>
        /\ srv[v].loc \in 0..(fresh - 1)
        /\ \A j \in DOMAIN PathsOf(v) : j < srv[v].at =>
              \A r \in rows[PathsOf(v)[j]] : r.loc # srv[v].loc

\* A locator whose deletion was acknowledged is in no database, and what was
\* acknowledged before a request is nowhere in it.
GoneInv ==
    /\ gone \subseteq 0..(fresh - 1)
    /\ \A d \in Served : \A r \in rows[d] : r.loc \notin gone
    /\ \A v \in Servers :
          /\ Cleared(v) /\ srv[v].gone \subseteq gone
          /\ \A r \in Seen(v) : r.loc \notin srv[v].gone

-----------------------------------------------------------------------------
(* Facts about the values *)

\* The images of a snapshot are a sequence.
LEMMA SnapshotImages ==
    ASSUME NEW s \in Searches, NEW r, r.payload = Snapshot(ResultOf[s])
    PROVE  \E n \in Nat : /\ DOMAIN r.payload.images = 1..n
                          /\ Len(r.payload.images) = n
<1> DEFINE res == ResultOf[s]
           T == {"desired"} \cup Nat
           A == {"front", "left", "right", "rear"}
<1>1. r.payload.images = IF kind = "typed" THEN TypedImages(res)
                         ELSE ProvisionalImages(res)
  BY DEF Snapshot, TypedSnapshot, ProvisionalSnapshot
<1>2. TypedImages(res) \in Seq(A)
  <2>1. <<>> \in Seq(A) /\ <<"front">> \in Seq(A)
    OBVIOUS
  <2>2. Angles \in Seq(A)
    BY DEF Angles
  <2> HIDE DEF res
  <2>3. QED
    BY <2>1, <2>2 DEF TypedImages
<1>3. ProvisionalImages(res) \in Seq(T)
  <2>1. res.conditions \in Nat
    BY ResultsAssumption
  <2>2. [i \in 1..res.conditions |-> i] \in Seq(T)
    BY <2>1, IsASeq
  <2>3. <<"desired">> \in Seq(T) /\ <<>> \in Seq(T)
    OBVIOUS
  <2>4. <<"desired">> \o [i \in 1..res.conditions |-> i] \in Seq(T)
    BY <2>2, <2>3, ConcatProperties
  <2>5. QED
    BY <2>3, <2>4 DEF ProvisionalImages
<1> HIDE DEF T, A, res
<1>4. QED
  BY <1>1, <1>2, <1>3, LenProperties

\* A row has one reference (NewRow) for each image of the snapshot it was saved with.
LEMMA ImagesOfRow ==
    ASSUME NEW r, RowOk(r)
    PROVE  /\ Len(r.payload.images) \in Nat
           /\ DOMAIN r.payload.images = 1..Len(r.payload.images)
           /\ DOMAIN r.refs = 1..Len(r.payload.images)
           /\ Len(r.refs) = Len(r.payload.images)
<1>1. r.search \in Searches /\ r.payload = Snapshot(ResultOf[r.search])
  BY DEF RowOk
<1>2. PICK n \in Nat : DOMAIN r.payload.images = 1..n /\ Len(r.payload.images) = n
  BY <1>1, SnapshotImages
<1>3. r.refs = [i \in 1..n |-> <<r.loc, i>>]
  BY <1>2 DEF RowOk
<1>4. QED
  BY <1>2, <1>3

\* A row stays a row while locators are made.
LEMMA RowStays ==
    ASSUME NEW r, RowOk(r), kind' = kind, fresh \in Nat, fresh' \in Nat,
           fresh <= fresh'
    PROVE  RowOk(r)'
BY DEF RowOk, Snapshot, ValidWrite, Key

\* A history_id is one history of a database.
LEMMA IdOnce ==
    ASSUME TypeInv, RowsInv, NEW d \in Stores, NEW r1 \in rows[d],
           NEW r2 \in rows[d], r1.hid = r2.hid
    PROVE  r1 = r2
<1>1. RowOk(r1) /\ RowOk(r2)
  BY DEF RowsInv
<1>2. CASE kind = "provisional"
  <2>1. r1.hid = <<r1.search>> /\ r2.hid = <<r2.search>>
    BY <1>1, <1>2 DEF RowOk
  <2>2. r1.key = r2.key
    BY <1>1, <1>2, <2>1 DEF RowOk, Key, ProvisionalKey
  <2>3. QED
    BY <2>2 DEF RowsInv
<1>3. CASE kind = "typed"
  <2>1. \A a, b, c : <<a>> # <<b, c>>
    <3>1. \A a, b, c : Len(<<a>>) = 1 /\ Len(<<b, c>>) = 2
      OBVIOUS
    <3>2. QED
      BY <3>1
  <2>2. r1.loc = r2.loc
    BY <1>1, <1>3, <2>1 DEF RowOk
  <2>3. QED
    BY <2>2 DEF RowsInv
<1>4. QED
  BY <1>2, <1>3 DEF TypeInv

\* A database that a server reads is one of the databases served.
LEMMA PathFacts ==
    ASSUME NEW v \in Servers
    PROVE  /\ PathsOf(v) \in Seq(Stores) /\ PathsOf(v) # <<>>
           /\ \A j \in DOMAIN PathsOf(v) :
                 PathsOf(v)[j] \in Stores /\ PathsOf(v)[j] \in Served
<1>1. Paths[v] \in Seq(Stores) /\ Paths[v] # <<>>
  BY StoresAssumption
<1>2. Paths[v][1] \in Stores
  BY <1>1
<1>3. PathsOf(v) \in Seq(Stores) /\ PathsOf(v) # <<>>
  BY <1>1, <1>2 DEF PathsOf
<1>4. \A j \in DOMAIN PathsOf(v) : PathsOf(v)[j] \in Range(PathsOf(v))
  BY DEF Range
<1>5. QED
  BY <1>3, <1>4 DEF Served

\* Servers given the same databases all read every database that is served.
LEMMA ServedFacts ==
    /\ Served \subseteq Stores
    /\ SameDatabases => \A v \in Servers : Served = Range(PathsOf(v))
<1>1. \A v \in Servers : Range(PathsOf(v)) \subseteq Stores
  BY PathFacts DEF Range
<1>2. SameDatabases => \A v, w \in Servers : PathsOf(v) = PathsOf(w)
  BY DEF SameDatabases, PathsOf
<1>3. QED
  BY <1>1, <1>2 DEF Served

-----------------------------------------------------------------------------
(* What a step does to the databases *)

\* A delete and a purge take histories with their images.
LEMMA DropKeeps ==
    ASSUME TypeInv, RowsInv, ImagesInv, NEW d \in Stores,
           NEW deleted \in SUBSET rows[d],
           DropRows(d, deleted), UNCHANGED <<kind, present, fresh>>
    PROVE  /\ rows' = [e \in Stores |-> rows'[e]]
           /\ images' = [e \in Stores |-> images'[e]]
           /\ RowsInv' /\ ImagesInv'
           /\ rows'[d] = rows[d] \ deleted
           /\ \A e \in Stores : rows'[e] \subseteq rows[e]
<1>1. /\ rows' = [e \in Stores |-> rows'[e]]
      /\ images' = [e \in Stores |-> images'[e]]
      /\ rows'[d] = rows[d] \ deleted
      /\ images'[d] = {x \in images[d] : \A r \in deleted : x.hid # r.hid}
      /\ \A e \in Stores : e # d => rows'[e] = rows[e] /\ images'[e] = images[e]
  BY DEF DropRows, Cascade, TypeInv
<1>2. \A e \in Stores : rows'[e] \subseteq rows[e]
  BY <1>1
<1>3. RowsInv'
  <2>1. \A e \in Stores : \A r \in rows'[e] : RowOk(r)'
    BY <1>2, RowStays DEF RowsInv, TypeInv
  <2>2. QED
    BY <1>2, <2>1 DEF RowsInv
<1>4. ImagesInv'
  <2>1. \A r \in rows[d] : \A i : ImageOf(r, i).hid = r.hid
    BY DEF ImageOf
  <2>2. \A r \in rows[d] : r \notin deleted <=> \A x \in deleted : r.hid # x.hid
    BY IdOnce
  <2>3. \A x : x \in images'[d] <=>
            \E r \in rows'[d] : \E i \in DOMAIN r.payload.images : x = ImageOf(r, i)
    BY <1>1, <2>1, <2>2 DEF ImagesInv
  <2>4. QED
    BY <1>1, <2>3 DEF ImagesInv
<1>5. QED
  BY <1>1, <1>2, <1>3, <1>4

\* A save adds a history that was not there, under a locator that was never
\* used, with its images.
LEMMA SaveKeepsStores ==
    ASSUME TypeInv, RowsInv, ImagesInv, NEW d \in Stores, NEW s \in Searches,
           NEW at \in Nat, Save(d, s, at)
    PROVE  /\ TypeInv' /\ RowsInv' /\ ImagesInv'
           /\ \A e \in Stores : \A r \in rows'[e] : r \in rows[e] \/ r.loc = fresh
<1> DEFINE p == Snapshot(ResultOf[s])
           row == NewRow(s, at, p)
<1>1. /\ rows' = [rows EXCEPT ![d] = @ \cup {row}]
      /\ images' = [images EXCEPT ![d] = @ \cup NewImages(s, p)]
      /\ fresh' = fresh + 1 /\ present' = present \cup {d}
      /\ UNCHANGED <<kind, srv, clock>>
      /\ ValidWrite(p) /\ \A r \in rows[d] : r.key # Key(s, at)
  BY DEF Save, WithKey
<1>2. /\ rows' = [e \in Stores |-> rows'[e]] /\ rows'[d] = rows[d] \cup {row}
      /\ images' = [e \in Stores |-> images'[e]]
      /\ images'[d] = images[d] \cup NewImages(s, p)
      /\ \A e \in Stores : e # d => rows'[e] = rows[e] /\ images'[e] = images[e]
  BY <1>1 DEF TypeInv
<1>3. /\ row.loc = fresh /\ row.search = s /\ row.at = at /\ row.payload = p
      /\ row.key = Key(s, at) /\ row.hid = HistoryId(s)
      /\ row.refs = [i \in DOMAIN p.images |-> <<fresh, i>>]
  BY DEF NewRow
<1>4. ASSUME NEW x, x = row PROVE RowOk(x)'
  <2>1. PICK f : f = fresh
    OBVIOUS
  <2>2. f \in 0..(fresh' - 1)
    BY <1>1, <2>1 DEF TypeInv
  <2>3. /\ x.loc = f /\ x.search = s /\ x.at = at
        /\ x.payload = Snapshot(ResultOf[s]) /\ ValidWrite(x.payload)
        /\ x.key = Key(s, at)
        /\ x.refs = [i \in DOMAIN x.payload.images |-> <<f, i>>]
        /\ x.hid = IF kind = "typed" THEN <<s, f>> ELSE <<s>>
    BY <1>1, <1>3, <1>4, <2>1 DEF HistoryId
  <2>4. QED
    BY <1>1, <2>2, <2>3 DEF RowOk, Snapshot, ValidWrite, Key, TypeInv
<1> HIDE DEF row
<1>5. TypeInv'
  BY <1>1, <1>2 DEF TypeInv
<1>6. \A e \in Stores : \A r \in rows'[e] :
         r \in rows[e] \/ (e = d /\ r = row /\ r.loc = fresh)
  BY <1>2, <1>3
<1>7. \A e \in Stores : \A r \in rows[e] : RowOk(r) /\ r.loc \in Nat /\ r.loc # fresh
  <2>1. \A e \in Stores : \A r \in rows[e] : RowOk(r)
    BY DEF RowsInv
  <2>2. ASSUME NEW r, RowOk(r) PROVE r.loc \in Nat /\ r.loc # fresh
    BY <2>2 DEF RowOk, TypeInv
  <2>3. QED
    BY <2>1, <2>2
<1>8. RowsInv'
  <2>1. \A e \in Stores : \A r \in rows'[e] : RowOk(r)'
    BY <1>1, <1>4, <1>6, <1>7, RowStays DEF TypeInv
  <2>2. \A e \in Stores : \A r1, r2 \in rows'[e] : r1.key = r2.key => r1 = r2
    <3>1. \A r \in rows[d] : r.key # row.key
      BY <1>1, <1>3
    <3>2. QED
      BY <1>2, <1>6, <3>1 DEF RowsInv
  <2>3. \A d1, d2 \in Stores : \A r1 \in rows'[d1], r2 \in rows'[d2] :
           r1.loc = r2.loc => r1 = r2
    BY <1>6, <1>7 DEF RowsInv
  <2>4. \A e \in Stores \ present' : rows'[e] = {}
    BY <1>1, <1>2 DEF RowsInv
  <2>5. QED
    BY <2>1, <2>2, <2>3, <2>4 DEF RowsInv
<1>9. ImagesInv'
  <2>1. \A x : x \in NewImages(s, p) <=>
           \E i \in DOMAIN row.payload.images : x = ImageOf(row, i)
    BY <1>3 DEF NewImages, ImageOf
  <2>2. \A x : x \in images'[d] <=>
           \E r \in rows'[d] : \E i \in DOMAIN r.payload.images : x = ImageOf(r, i)
    BY <1>2, <2>1 DEF ImagesInv
  <2>3. QED
    BY <1>2, <2>2 DEF ImagesInv
<1>10. QED
  BY <1>5, <1>6, <1>8, <1>9

-----------------------------------------------------------------------------
(* What a step does to a request *)

\* A request moves: what it has now is what it had or a row of a database
\* that is served, unexpired for the request.
RequestStep(v) ==
    /\ srv' = [srv EXCEPT ![v] = srv'[v]] /\ IsRequest(srv'[v])
    /\ srv'[v].gone \subseteq gone \cup srv[v].gone
    /\ \A r \in Seen(v)' :
          \/ /\ r \in Seen(v)
             /\ srv'[v].now = srv[v].now /\ srv'[v].gone = srv[v].gone
          \/ \E d \in Served : r \in rows[d] /\ Expires(r) > srv'[v].now
    /\ GotInv(v)' /\ StageInv(v)'

\* What the step of a database may do to what requests have seen.
RowsStep ==
    /\ kind' = kind /\ fresh \in Nat /\ fresh' \in Nat /\ fresh <= fresh'
    /\ \A d \in Stores : \A r \in rows'[d] : r \in rows[d] \/ r.loc = fresh

\* A request that does not move has seen the same rows.
LEMMA SeenStays ==
    ASSUME NEW v, SeenInv(v), RowsStep, srv'[v] = srv[v]
    PROVE  SeenInv(v)'
<1>1. \A r \in Seen(v)' : r \in Seen(v)
  BY DEF Seen
<1>2. ASSUME NEW r \in Seen(v)
      PROVE  /\ RowOk(r)' /\ Expires(r) > srv'[v].now
             /\ \A d \in Stores : \A x \in rows'[d] : x.loc = r.loc => x = r
  <2>1. RowOk(r)' /\ r.loc # fresh
    BY RowStays DEF SeenInv, RowsStep, RowOk
  <2>2. QED
    BY <2>1 DEF SeenInv, RowsStep
<1>3. QED
  BY <1>1, <1>2 DEF SeenInv, Expires

\* A step in which one request moves keeps what every request has read.
LEMMA ReadKeeps ==
    ASSUME IInv, RowsStep, NEW v \in Servers, RequestStep(v)
    PROVE  ReadInv'
<1>1. /\ \A u \in Servers : u # v => srv'[u] = srv[u]
      /\ srv' = [u \in Servers |-> srv'[u]]
  BY DEF RequestStep, IInv, TypeInv
<1>2. ASSUME NEW u \in Servers, u # v PROVE (SeenInv(u) /\ GotInv(u) /\ StageInv(u))'
  <2>1. SeenInv(u)'
    BY <1>1, <1>2, SeenStays DEF IInv, ReadInv
  <2>2. GotInv(u)'
    BY <1>1, <1>2 DEF IInv, ReadInv, GotInv
  <2>3. PathsOf(u)' = PathsOf(u)
    BY DEF PathsOf, RowsStep
  <2>4. StageInv(u)'
    BY <1>1, <1>2, <2>3 DEF IInv, ReadInv, StageInv, Db
  <2>5. QED
    BY <2>1, <2>2, <2>4
<1>3. SeenInv(v)'
  <2>1. ASSUME NEW r \in Seen(v)'
        PROVE  /\ RowOk(r) /\ Expires(r) > srv'[v].now
               /\ \A d \in Stores : \A x \in rows[d] : x.loc = r.loc => x = r
    BY <2>1, ServedFacts DEF RequestStep, IInv, ReadInv, SeenInv, RowsInv
  <2>2. ASSUME NEW r \in Seen(v)'
        PROVE  /\ RowOk(r)' /\ Expires(r) > srv'[v].now
               /\ \A d \in Stores : \A x \in rows'[d] : x.loc = r.loc => x = r
    <3>1. RowOk(r)' /\ r.loc # fresh
      BY <2>1, RowStays DEF RowsStep, RowOk
    <3>2. QED
      BY <2>1, <3>1 DEF RowsStep
  <2>3. QED
    BY <2>2 DEF SeenInv, Expires
<1>4. QED
  BY <1>2, <1>3 DEF RequestStep, ReadInv

-----------------------------------------------------------------------------
(* Each step of a server *)

\* Setting a field of a request leaves a request; so does setting another.
LEMMA Field ==
    ASSUME NEW x, IsRequest(x), NEW a
    PROVE  /\ IsRequest([x EXCEPT !.op = a])
           /\ IsRequest([x EXCEPT !.pc = a])
           /\ IsRequest([x EXCEPT !.loc = a])
           /\ IsRequest([x EXCEPT !.now = a])
           /\ IsRequest([x EXCEPT !.at = a])
           /\ IsRequest([x EXCEPT !.row = a])
           /\ IsRequest([x EXCEPT !.got = a])
           /\ IsRequest([x EXCEPT !.todo = a])
           /\ IsRequest([x EXCEPT !.listed = a])
           /\ IsRequest([x EXCEPT !.failed = a])
           /\ IsRequest([x EXCEPT !.gone = a])
<1>1. IsRequest([x EXCEPT !.op = a])
  BY DEF IsRequest
<1>2. IsRequest([x EXCEPT !.pc = a])
  BY DEF IsRequest
<1>3. IsRequest([x EXCEPT !.loc = a])
  BY DEF IsRequest
<1>4. IsRequest([x EXCEPT !.now = a])
  BY DEF IsRequest
<1>5. IsRequest([x EXCEPT !.at = a])
  BY DEF IsRequest
<1>6. IsRequest([x EXCEPT !.row = a])
  BY DEF IsRequest
<1>7. IsRequest([x EXCEPT !.got = a])
  BY DEF IsRequest
<1>8. IsRequest([x EXCEPT !.todo = a])
  BY DEF IsRequest
<1>9. IsRequest([x EXCEPT !.listed = a])
  BY DEF IsRequest
<1>10. IsRequest([x EXCEPT !.failed = a])
  BY DEF IsRequest
<1>11. IsRequest([x EXCEPT !.gone = a])
  BY DEF IsRequest
<1>12. QED
  BY <1>1, <1>2, <1>3, <1>4, <1>5, <1>6, <1>7, <1>8, <1>9, <1>10, <1>11

\* A statement that sets a field no type is asked of leaves a request.
LEMMA Fields ==
    ASSUME NEW x, IsRequest(x), NEW a, NEW b
    PROVE  /\ IsRequest([x EXCEPT !.pc = a, !.row = b])
           /\ IsRequest([x EXCEPT !.pc = a, !.todo = b])
           /\ IsRequest([x EXCEPT !.pc = a, !.listed = b])
           /\ IsRequest([x EXCEPT !.todo = a, !.listed = b])
<1>1. ASSUME NEW y, IsRequest(y)
      PROVE  /\ IsRequest([y EXCEPT !.row = b]) /\ IsRequest([y EXCEPT !.todo = b])
             /\ IsRequest([y EXCEPT !.listed = b])
  BY <1>1, Field
<1>2. IsRequest([x EXCEPT !.pc = a]) /\ IsRequest([x EXCEPT !.todo = a])
  BY Field
<1>3. IsRequest([x EXCEPT !.pc = a, !.row = b])
  <2> DEFINE y == [x EXCEPT !.pc = a]
  <2>1. [x EXCEPT !.pc = a, !.row = b] = [y EXCEPT !.row = b]
    OBVIOUS
  <2> HIDE DEF y
  <2>2. IsRequest([y EXCEPT !.row = b])
    BY <1>1, <1>2 DEF y
  <2>3. QED
    BY <2>1, <2>2
<1>4. IsRequest([x EXCEPT !.pc = a, !.todo = b])
  <2> DEFINE y == [x EXCEPT !.pc = a]
  <2>1. [x EXCEPT !.pc = a, !.todo = b] = [y EXCEPT !.todo = b]
    OBVIOUS
  <2> HIDE DEF y
  <2>2. IsRequest([y EXCEPT !.todo = b])
    BY <1>1, <1>2 DEF y
  <2>3. QED
    BY <2>1, <2>2
<1>5. IsRequest([x EXCEPT !.pc = a, !.listed = b])
  <2> DEFINE y == [x EXCEPT !.pc = a]
  <2>1. [x EXCEPT !.pc = a, !.listed = b] = [y EXCEPT !.listed = b]
    OBVIOUS
  <2> HIDE DEF y
  <2>2. IsRequest([y EXCEPT !.listed = b])
    BY <1>1, <1>2 DEF y
  <2>3. QED
    BY <2>1, <2>2
<1>6. IsRequest([x EXCEPT !.todo = a, !.listed = b])
  <2> DEFINE y == [x EXCEPT !.todo = a]
  <2>1. [x EXCEPT !.todo = a, !.listed = b] = [y EXCEPT !.listed = b]
    OBVIOUS
  <2> HIDE DEF y
  <2>2. IsRequest([y EXCEPT !.listed = b])
    BY <1>1, <1>2 DEF y
  <2>3. QED
    BY <2>1, <2>2
<1>7. QED
  BY <1>3, <1>4, <1>5, <1>6

\* A request that is over.
LEMMA IdleStep ==
    ASSUME IInv, NEW v \in Servers, Reply(v)
    PROVE  RequestStep(v) /\ srv'[v] = Idle
<1>1. /\ srv' = [srv EXCEPT ![v] = Idle] /\ srv'[v] = Idle
      /\ srv' = [srv EXCEPT ![v] = srv'[v]]
  BY DEF Reply, IInv, TypeInv
<1>2. IsRequest(Idle)
  BY DEF IsRequest, Idle
<1>3. Seen(v)' = {} /\ srv'[v].gone = {}
  BY <1>1 DEF Seen, Idle
<1>4. GotInv(v)' /\ StageInv(v)'
  BY <1>1 DEF GotInv, StageInv, Idle
<1>5. QED
  BY <1>1, <1>2, <1>3, <1>4 DEF RequestStep

\* A new request has seen nothing.
LEMMA StartStep ==
    ASSUME IInv, NEW v \in Servers, NEW op, NEW loc, Request(v, op, loc)
    PROVE  /\ RequestStep(v)
           /\ srv'[v].op = op /\ srv'[v].loc = loc /\ srv'[v].at = 1
<1> DEFINE q == [Idle EXCEPT !.op = op, !.loc = loc, !.now = clock, !.gone = gone]
<1>1. /\ q.op = op /\ q.pc = "scan" /\ q.loc = loc /\ q.at = 1 /\ q.got = <<>>
      /\ q.todo = {} /\ q.listed = {} /\ q.gone = gone
  BY DEF Idle
<1>7. IsRequest(q)
  <2> DEFINE q1 == [Idle EXCEPT !.op = op]
             q2 == [q1 EXCEPT !.loc = loc]
             q3 == [q2 EXCEPT !.now = clock]
  <2>1. IsRequest(Idle) /\ q = [q3 EXCEPT !.gone = gone]
    BY DEF IsRequest, Idle
  <2> HIDE DEF q, q1, q2, q3
  <2>2. IsRequest(q1)
    BY <2>1, Field DEF q1
  <2>3. IsRequest(q2)
    BY <2>2, Field DEF q2
  <2>4. IsRequest(q3)
    BY <2>3, Field DEF q3
  <2>5. QED
    BY <2>1, <2>4, Field
<1>2. srv' = [srv EXCEPT ![v] = q]
  BY DEF Request
<1> HIDE DEF q
<1>3. srv'[v] = q
  BY <1>2 DEF IInv, TypeInv
<1>4. Seen(v)' = {}
  BY <1>1, <1>3 DEF Seen
<1>5. GotInv(v)' /\ StageInv(v)'
  BY <1>1, <1>3 DEF GotInv, StageInv
<1>6. QED
  BY <1>1, <1>2, <1>3, <1>4, <1>5, <1>7 DEF RequestStep

\* The next database.
LEMMA NextStep ==
    ASSUME IInv, NEW v \in Servers, NEW q, IsRequest(q), srv[v].pc \in {"scan", "refs"},
           srv' = [srv EXCEPT ![v] = q],
           q.at = srv[v].at + 1, q.pc = "scan", q.now = srv[v].now,
           q.got = srv[v].got, q.todo = srv[v].todo, q.listed = srv[v].listed,
           q.gone = srv[v].gone
    PROVE  RequestStep(v) /\ srv'[v] = q
<1>1. srv'[v] = q
  BY DEF IInv, TypeInv
<1>2. Seen(v)' \subseteq Seen(v)
  BY <1>1 DEF Seen
<1>3. GotInv(v)' /\ StageInv(v)'
  <2>1. srv[v].at \in Nat \ {0} /\ srv[v].got = <<>>
    BY DEF StageInv, IInv, ReadInv
  <2>2. QED
    BY <1>1, <2>1 DEF GotInv, StageInv
<1>4. QED
  BY <1>1, <1>2, <1>3 DEF RequestStep

\* A database in the list of a server is one that is served.
LEMMA DbFacts ==
    ASSUME IInv, NEW v \in Servers, srv[v].at <= Len(PathsOf(v))
    PROVE  /\ srv[v].at \in DOMAIN PathsOf(v)
           /\ Db(v) \in Stores /\ Db(v) \in Served
<1>1. srv[v].at \in Nat \ {0}
  BY DEF IInv, ReadInv, StageInv
<1>2. srv[v].at \in DOMAIN PathsOf(v)
  BY <1>1, PathFacts
<1>3. QED
  BY <1>2, PathFacts DEF Db

\* A database without a file is passed over.
LEMMA SkipAbsentStep ==
    ASSUME IInv, NEW v \in Servers, SkipAbsent(v)
    PROVE  RequestStep(v) /\ srv'[v] = NextStore(v)
<1> DEFINE q == NextStore(v)
<1>1. IsRequest(srv[v])
  BY DEF IInv, TypeInv
<1>2. IsRequest(q)
  BY <1>1, Field DEF NextStore
<1>3. /\ q.at = srv[v].at + 1 /\ q.pc = srv[v].pc /\ q.now = srv[v].now
      /\ q.got = srv[v].got /\ q.todo = srv[v].todo
      /\ q.listed = srv[v].listed /\ q.gone = srv[v].gone
  BY <1>1 DEF NextStore, IsRequest
<1>4. srv' = [srv EXCEPT ![v] = q] /\ srv[v].pc = "scan"
  BY DEF SkipAbsent
<1> HIDE DEF q
<1>5. QED
  BY <1>2, <1>3, <1>4, NextStep DEF q

\* The row of a request is found in the database it is at, or not there.
LEMMA GetRowStep ==
    ASSUME IInv, NEW v \in Servers, GetRow(v)
    PROVE  RequestStep(v) /\ srv'[v].op # "delete"
<1> DEFINE found == WithLocator(Db(v), srv[v].loc, srv[v].now)
           r == CHOOSE x \in found : TRUE
           q == [srv[v] EXCEPT !.pc = "refs", !.row = r]
           p == NextStore(v)
<1>1. /\ IsRequest(srv[v]) /\ srv[v].op = "get" /\ srv[v].pc = "scan"
      /\ srv[v].at <= Len(PathsOf(v)) /\ srv[v].at \in Nat \ {0}
      /\ srv[v].got = <<>>
  BY DEF IInv, TypeInv, GetRow, Scanning, ReadInv, StageInv
<1>2. CASE Reply(v)
  BY <1>2, IdleStep DEF Idle
<1>3. CASE srv' = [srv EXCEPT ![v] = p]
  <2>1. IsRequest(p)
    BY <1>1, Field DEF NextStore
  <2>2. /\ p.at = srv[v].at + 1 /\ p.pc = "scan" /\ p.now = srv[v].now
        /\ p.got = srv[v].got /\ p.todo = srv[v].todo /\ p.op = "get"
        /\ p.listed = srv[v].listed /\ p.gone = srv[v].gone
    BY <1>1 DEF NextStore, IsRequest
  <2> HIDE DEF p
  <2>3. QED
    BY <1>1, <1>3, <2>1, <2>2, NextStep
<1>4. CASE found # {} /\ srv' = [srv EXCEPT ![v] = q]
  <2>1. Db(v) \in Stores /\ Db(v) \in Served
    BY <1>1, DbFacts
  <2>2. r \in rows[Db(v)] /\ Expires(r) > srv[v].now
    BY <1>4 DEF WithLocator, Unexpired
  <2> HIDE DEF r
  <2>3. /\ q.op = "get" /\ q.pc = "refs" /\ q.row = r /\ q.now = srv[v].now
        /\ q.at = srv[v].at /\ q.got = <<>> /\ q.todo = srv[v].todo
        /\ q.listed = srv[v].listed /\ q.gone = srv[v].gone
    BY <1>1 DEF IsRequest
  <2>4. IsRequest(q)
    BY <1>1, Fields
  <2> HIDE DEF q
  <2>5. srv'[v] = q
    BY <1>4 DEF IInv, TypeInv
  <2>6. Seen(v)' \subseteq Seen(v) \cup {r}
    BY <2>3, <2>5 DEF Seen
  <2>7. GotInv(v)'
    <3>1. RowOk(r)
      BY <2>1, <2>2 DEF IInv, RowsInv
    <3>2. Len(r.payload.images) \in Nat
      BY <3>1, ImagesOfRow
    <3>3. /\ Len(q.got) = 0 /\ q.got = [i \in 1..0 |->
               <<q.row.search, q.row.payload.images[i]>>]
      BY <2>3
    <3>4. QED
      BY <2>3, <2>5, <3>2, <3>3 DEF GotInv
  <2>8. StageInv(v)'
    <3>1. PathsOf(v)' = PathsOf(v)
      BY DEF GetRow, PathsOf
    <3>2. QED
      BY <1>1, <2>1, <2>3, <2>5, <3>1 DEF StageInv, Db
  <2>9. QED
    BY <1>4, <2>1, <2>2, <2>3, <2>4, <2>5, <2>6, <2>7, <2>8 DEF RequestStep
<1>5. QED
  BY <1>2, <1>3, <1>4 DEF GetRow

\* Its image rows are the ones it was saved with, or the request ends.
LEMMA GetRefsStep ==
    ASSUME IInv, NEW v \in Servers, GetRefs(v)
    PROVE  RequestStep(v) /\ srv'[v].op # "delete"
<1> DEFINE q == [srv[v] EXCEPT !.pc = "bodies"]
<1>1. /\ IsRequest(srv[v]) /\ srv[v].op = "get" /\ srv[v].pc = "refs"
      /\ GotInv(v) /\ StageInv(v)
  BY DEF IInv, TypeInv, GetRefs, ReadInv
<1>2. CASE Reply(v)
  BY <1>2, IdleStep DEF Idle
<1>3. CASE srv' = [srv EXCEPT ![v].pc = "bodies"]
  <2>1. /\ q.op = "get" /\ q.pc = "bodies" /\ q.row = srv[v].row
        /\ q.now = srv[v].now /\ q.at = srv[v].at /\ q.got = srv[v].got
        /\ q.todo = srv[v].todo /\ q.listed = srv[v].listed
        /\ q.gone = srv[v].gone
    BY <1>1 DEF IsRequest
  <2>2. IsRequest(q)
    BY <1>1, Field
  <2>3. srv' = [srv EXCEPT ![v] = q]
    BY <1>3
  <2> HIDE DEF q
  <2>4. srv'[v] = q
    BY <2>3 DEF IInv, TypeInv
  <2>5. Seen(v)' \subseteq Seen(v)
    BY <1>1, <2>1, <2>4 DEF Seen
  <2>6. GotInv(v)'
    BY <1>1, <2>1, <2>4 DEF GotInv
  <2>7. StageInv(v)'
    <3>1. PathsOf(v)' = PathsOf(v)
      BY DEF GetRefs, PathsOf
    <3>2. QED
      BY <1>1, <2>1, <2>4, <3>1 DEF StageInv, Db
  <2>8. QED
    BY <2>1, <2>2, <2>3, <2>4, <2>5, <2>6, <2>7 DEF RequestStep
<1>4. QED
  BY <1>2, <1>3 DEF GetRefs

\* A sequence that is known element by element grows by one.
LEMMA GrowGot ==
    ASSUME NEW f, NEW m \in Nat, NEW got, got = [i \in 1..m |-> f[i]]
    PROVE  /\ Append(got, f[m + 1]) = [i \in 1..(m + 1) |-> f[i]]
           /\ Len(got) = m /\ Len(Append(got, f[m + 1])) = m + 1
OBVIOUS

\* A body that is found is the one of the row's image at that place, although
\* the row may be deleted and its completion saved again meanwhile.
LEMMA GetBodyStep ==
    ASSUME IInv, NEW v \in Servers, GetBody(v)
    PROVE  RequestStep(v) /\ srv'[v].op # "delete"
<1> DEFINE row == srv[v].row
           got == srv[v].got
           m == Len(got)
           found == ImageBodies(Db(v), row.refs[m + 1], srv[v].now)
           body == (CHOOSE i \in found : TRUE).body
           q == [srv[v] EXCEPT !.got = Append(got, body)]
<1>1. /\ IsRequest(srv[v]) /\ srv[v].op = "get" /\ srv[v].pc = "bodies"
      /\ GotInv(v) /\ StageInv(v) /\ SeenInv(v) /\ m < Len(row.refs)
  BY DEF IInv, TypeInv, GetBody, ReadInv
<1>2. row \in Seen(v) /\ RowOk(row)
  BY <1>1 DEF Seen, SeenInv
<1>3. CASE Reply(v)
  BY <1>3, IdleStep DEF Idle
<1>4. CASE found # {} /\ srv' = [srv EXCEPT ![v] = q]
  <2>1. /\ m \in Nat /\ m + 1 \in 1..Len(row.payload.images)
        /\ Len(row.payload.images) \in Nat
        /\ row.refs[m + 1] = <<row.loc, m + 1>>
    <3>1. m \in 0..Len(row.payload.images)
      BY <1>1 DEF GotInv
    <3>2. /\ Len(row.payload.images) \in Nat /\ DOMAIN row.payload.images = 1..Len(row.payload.images)
          /\ Len(row.refs) = Len(row.payload.images)
      BY <1>2, ImagesOfRow
    <3>3. row.refs = [i \in DOMAIN row.payload.images |-> <<row.loc, i>>]
      BY <1>2 DEF RowOk
    <3> DEFINE n == Len(row.payload.images)
    <3>4. n \in Nat /\ m \in 0..n /\ m < n
      BY <1>1, <3>1, <3>2
    <3> HIDE DEF m, n
    <3>5. m \in Nat /\ m + 1 \in 1..n
      BY <3>4
    <3>6. row.refs[m + 1] = <<row.loc, m + 1>>
      BY <3>2, <3>3, <3>5 DEF n
    <3>7. QED
      BY <3>4, <3>5, <3>6 DEF n
  <2>2. body = <<row.search, row.payload.images[m + 1]>>
    <3>1. PICK i \in found : body = i.body
      BY <1>4
    <3>2. i \in images[Db(v)] /\ i.loc = <<row.loc, m + 1>>
      BY <2>1, <3>1 DEF ImageBodies
    <3>3. Db(v) \in Stores
      BY <1>1 DEF StageInv
    <3>4. PICK r \in rows[Db(v)] : \E j \in DOMAIN r.payload.images : i = ImageOf(r, j)
      BY <3>2, <3>3 DEF IInv, ImagesInv
    <3>5. PICK j : i = ImageOf(r, j)
      BY <3>4
    <3>6. i.loc = <<r.loc, j>> /\ i.body = <<r.search, r.payload.images[j]>>
      BY <3>5 DEF ImageOf
    <3>7. r.loc = row.loc /\ j = m + 1
      BY <3>2, <3>6
    <3>8. r = row
      BY <1>1, <1>2, <3>3, <3>7 DEF SeenInv
    <3>9. QED
      BY <3>1, <3>6, <3>7, <3>8
  <2>3. q = [srv[v] EXCEPT !.got = Append(got, body)]
    OBVIOUS
  <2> HIDE DEF body
  <2>4. /\ q.op = "get" /\ q.pc = "bodies" /\ q.row = row
        /\ q.now = srv[v].now /\ q.at = srv[v].at
        /\ q.got = Append(got, body) /\ q.todo = srv[v].todo
        /\ q.listed = srv[v].listed /\ q.gone = srv[v].gone
    BY <1>1, <2>3 DEF IsRequest
  <2>5. IsRequest(q)
    BY <1>1, <2>3, Field
  <2> HIDE DEF q
  <2>6. srv'[v] = q
    BY <1>4 DEF IInv, TypeInv
  <2>7. Seen(v)' \subseteq Seen(v)
    BY <1>1, <2>4, <2>6 DEF Seen
  <2>8. GotInv(v)'
    <3> DEFINE n == Len(row.payload.images)
               f == [i \in 1..n |-> <<row.search, row.payload.images[i]>>]
    <3>1. got = [i \in 1..m |-> f[i]] /\ body = f[m + 1]
      <4>1. got = [i \in 1..m |-> <<row.search, row.payload.images[i]>>]
        BY <1>1 DEF GotInv
      <4>2. /\ \A i \in 1..m : f[i] = <<row.search, row.payload.images[i]>>
            /\ f[m + 1] = <<row.search, row.payload.images[m + 1]>>
        BY <2>1
      <4> HIDE DEF f
      <4>3. got = [i \in 1..m |-> f[i]]
        BY <4>1, <4>2
      <4>4. QED
        BY <2>2, <4>2, <4>3
    <3>5. \A i \in 1..(m + 1) : f[i] = <<row.search, row.payload.images[i]>>
      BY <2>1
    <3> HIDE DEF f
    <3>2. /\ Append(got, body) = [i \in 1..(m + 1) |-> f[i]]
          /\ Len(Append(got, body)) = m + 1
      BY <2>1, <3>1, GrowGot
    <3>3. /\ Len(q.got) \in 0..n
          /\ q.got = [i \in 1..Len(q.got) |-> <<row.search, row.payload.images[i]>>]
      BY <2>1, <2>4, <3>2, <3>5
    <3>4. QED
      BY <2>4, <2>6, <3>3 DEF GotInv
  <2>9. StageInv(v)'
    <3>1. PathsOf(v)' = PathsOf(v)
      BY DEF GetBody, PathsOf
    <3>2. QED
      BY <1>1, <2>4, <2>6, <3>1 DEF StageInv, Db
  <2>10. QED
    BY <1>4, <2>4, <2>5, <2>6, <2>7, <2>8, <2>9 DEF RequestStep
<1>5. CASE found = {}
  BY <1>3, <1>5 DEF GetBody, Missing, Reply
<1>6. CASE found # {}
  <2>1. srv' = [srv EXCEPT ![v] = q]
    BY <1>6 DEF GetBody
  <2>2. QED
    BY <1>4, <1>6, <2>1
<1>7. QED
  BY <1>5, <1>6

\* The rows of a database are taken together, as they are at one moment.
LEMMA ListRowsStep ==
    ASSUME IInv, NEW v \in Servers, ListRows(v)
    PROVE  RequestStep(v) /\ srv'[v].op # "delete"
<1> DEFINE found == Unexpired(Db(v), srv[v].now)
           q == [srv[v] EXCEPT !.pc = "refs", !.todo = found]
<1>1. /\ IsRequest(srv[v]) /\ srv[v].op = "list" /\ srv[v].pc = "scan"
      /\ srv[v].at <= Len(PathsOf(v)) /\ StageInv(v)
  BY DEF IInv, TypeInv, ListRows, Scanning, ReadInv
<1>2. CASE Reply(v)
  BY <1>2, IdleStep DEF Idle
<1>3. CASE srv' = [srv EXCEPT ![v].pc = "refs", ![v].todo = found]
  <2>1. Db(v) \in Stores /\ Db(v) \in Served
    BY <1>1, DbFacts
  <2>2. \A r \in found : r \in rows[Db(v)] /\ Expires(r) > srv[v].now
    BY DEF Unexpired
  <2> HIDE DEF found
  <2>3. /\ q.op = "list" /\ q.pc = "refs" /\ q.now = srv[v].now
        /\ q.at = srv[v].at /\ q.got = srv[v].got /\ q.todo = found
        /\ q.listed = srv[v].listed /\ q.gone = srv[v].gone
    BY <1>1 DEF IsRequest
  <2>4. IsRequest(q)
    BY <1>1, Fields
  <2>5. srv' = [srv EXCEPT ![v] = q] /\ srv'[v] = q
    BY <1>3 DEF IInv, TypeInv
  <2> HIDE DEF q
  <2>6. Seen(v)' \subseteq Seen(v) \cup found
    BY <2>3, <2>5 DEF Seen
  <2>7. GotInv(v)'
    BY <2>3, <2>5 DEF GotInv
  <2>8. StageInv(v)'
    <3>1. PathsOf(v)' = PathsOf(v)
      BY DEF ListRows, PathsOf
    <3>2. QED
      BY <1>1, <2>1, <2>3, <2>5, <3>1 DEF StageInv, Db
  <2>9. QED
    BY <2>1, <2>2, <2>3, <2>4, <2>5, <2>6, <2>7, <2>8 DEF RequestStep
<1>4. QED
  BY <1>2, <1>3 DEF ListRows

\* Rows have a latest locator: as far as a row has later ones above it, one
\* of them has fewer.
LEMMA LatestRow ==
    ASSUME TypeInv, NEW S, S # {}, \A r \in S : RowOk(r)
    PROVE  (CHOOSE x \in S : \A y \in S : x.loc >= y.loc) \in S
<1> DEFINE L == 0..(fresh - 1)
           Above(x) == {l \in L : l > x.loc}
           T == {Above(x) : x \in S}
<1>1. L \subseteq Int /\ IsFiniteSet(L)
  <2>1. fresh - 1 \in Int
    BY DEF TypeInv
  <2>2. QED
    BY <2>1, FS_Interval
<1>2. \A x \in S : x.loc \in L
  BY DEF RowOk
<1>3. IsWellFoundedOn(StrictSubsetOrdering(L), FiniteSubsetsOf(L))
  BY FS_StrictSubsetOrderingWellFounded
<1>4. T \subseteq FiniteSubsetsOf(L) /\ T # {}
  <2>1. ASSUME NEW x \in S PROVE Above(x) \in SUBSET L /\ IsFiniteSet(Above(x))
    <3>1. Above(x) \in SUBSET L
      OBVIOUS
    <3> HIDE DEF Above, L
    <3>2. QED
      BY <1>1, <3>1, FS_Subset
  <2>2. QED
    BY <2>1 DEF FiniteSubsetsOf
<1>5. PICK m \in T : \A y \in T : ~(<<y, m>> \in StrictSubsetOrdering(L))
  BY <1>3, <1>4, WFMin
<1>6. PICK x \in S : m = Above(x)
  BY <1>5
<1>7. \A y \in S : x.loc >= y.loc
  <2>1. SUFFICES ASSUME NEW y \in S, y.loc > x.loc PROVE FALSE
    BY <1>1, <1>2
  <2>2. Above(y) \subseteq Above(x) /\ Above(y) # Above(x)
    BY <1>1, <1>2, <2>1
  <2>3. Above(y) \in SUBSET L /\ Above(x) \in SUBSET L
    OBVIOUS
  <2> HIDE DEF Above
  <2>4. <<Above(y), m>> \in StrictSubsetOrdering(L)
    BY <1>6, <2>2, <2>3 DEF StrictSubsetOrdering
  <2>5. QED
    BY <1>5, <2>4
<1>8. QED
  BY <1>7

\* The histories of the database at hand are listed one by one.
LEMMA ListRefsStep ==
    ASSUME IInv, NEW v \in Servers, ListRefs(v)
    PROVE  RequestStep(v) /\ srv'[v].op # "delete"
<1> DEFINE todo == srv[v].todo
           listed == srv[v].listed
           r == CHOOSE x \in todo : \A y \in todo : x.loc >= y.loc
           p == [NextStore(v) EXCEPT !.pc = "scan"]
           q == [srv[v] EXCEPT !.todo = todo \ {r}, !.listed = listed \cup {r}]
<1>1. /\ IsRequest(srv[v]) /\ srv[v].op = "list" /\ srv[v].pc = "refs"
      /\ StageInv(v) /\ SeenInv(v)
  BY DEF IInv, TypeInv, ListRefs, ReadInv
<1>2. CASE Reply(v)
  BY <1>2, IdleStep DEF Idle
<1>3. CASE srv' = [srv EXCEPT ![v] = p]
  <2> DEFINE n == NextStore(v)
  <2>1. IsRequest(n)
    BY <1>1, Field DEF NextStore
  <2>2. /\ n.at = srv[v].at + 1 /\ n.op = "list" /\ n.now = srv[v].now
        /\ n.got = srv[v].got /\ n.todo = srv[v].todo
        /\ n.listed = srv[v].listed /\ n.gone = srv[v].gone
    BY <1>1 DEF NextStore, IsRequest
  <2> HIDE DEF n
  <2>3. IsRequest([n EXCEPT !.pc = "scan"])
    BY <2>1, Field
  <2>4. p = [n EXCEPT !.pc = "scan"]
    BY DEF n
  <2> HIDE DEF p
  <2>5. /\ p.at = srv[v].at + 1 /\ p.pc = "scan" /\ p.now = srv[v].now
        /\ p.got = srv[v].got /\ p.todo = srv[v].todo /\ p.op = "list"
        /\ p.listed = srv[v].listed /\ p.gone = srv[v].gone
    BY <2>1, <2>2, <2>4 DEF IsRequest
  <2>6. QED
    BY <1>1, <1>3, <2>3, <2>4, <2>5, NextStep
<1>4. CASE todo # {} /\ srv' = [srv EXCEPT ![v].todo = todo \ {r},
                                          ![v].listed = listed \cup {r}]
  <2>1. todo \subseteq Seen(v) /\ listed \subseteq Seen(v)
    BY DEF Seen
  <2>2. r \in todo
    BY <1>1, <1>4, <2>1, LatestRow DEF SeenInv, IInv
  <2> HIDE DEF r
  <2>3. /\ q.op = "list" /\ q.pc = "refs" /\ q.now = srv[v].now
        /\ q.at = srv[v].at /\ q.got = srv[v].got /\ q.todo = todo \ {r}
        /\ q.listed = listed \cup {r} /\ q.gone = srv[v].gone
    BY <1>1 DEF IsRequest
  <2>4. IsRequest(q)
    BY <1>1, Fields
  <2>5. srv' = [srv EXCEPT ![v] = q] /\ srv'[v] = q
    BY <1>4 DEF IInv, TypeInv
  <2> HIDE DEF q
  <2>6. Seen(v)' \subseteq Seen(v)
    BY <2>1, <2>2, <2>3, <2>5 DEF Seen
  <2>7. GotInv(v)'
    BY <2>3, <2>5 DEF GotInv
  <2>8. StageInv(v)'
    <3>1. PathsOf(v)' = PathsOf(v)
      BY DEF ListRefs, PathsOf
    <3>2. QED
      BY <1>1, <2>3, <2>5, <3>1 DEF StageInv, Db
  <2>9. QED
    BY <2>3, <2>4, <2>5, <2>6, <2>7, <2>8 DEF RequestStep
<1>5. QED
  BY <1>2, <1>3, <1>4 DEF ListRefs

\* A history is shown when it has all its images.
LEMMA ShowDetailStep ==
    ASSUME IInv, NEW v \in Servers, ShowDetail(v)
    PROVE  RequestStep(v) /\ srv'[v].op # "delete"
<1> DEFINE q == [srv[v] EXCEPT !.pc = "shown"]
<1>1. /\ IsRequest(srv[v]) /\ srv[v].op = "get" /\ srv[v].pc = "bodies"
      /\ GotInv(v) /\ StageInv(v) /\ SeenInv(v)
      /\ Len(srv[v].got) = Len(srv[v].row.refs)
      /\ srv' = [srv EXCEPT ![v] = q]
  BY DEF IInv, TypeInv, ShowDetail, ReadInv
<1>2. /\ q.op = "get" /\ q.pc = "shown" /\ q.row = srv[v].row
      /\ q.now = srv[v].now /\ q.at = srv[v].at /\ q.got = srv[v].got
      /\ q.todo = srv[v].todo /\ q.listed = srv[v].listed
      /\ q.gone = srv[v].gone
  BY <1>1 DEF IsRequest
<1>3. IsRequest(q)
  BY <1>1, Field
<1> HIDE DEF q
<1>4. srv'[v] = q
  BY <1>1 DEF IInv, TypeInv
<1>5. Seen(v)' \subseteq Seen(v)
  BY <1>1, <1>2, <1>4 DEF Seen
<1>6. GotInv(v)'
  <2>1. Len(srv[v].row.refs) = Len(srv[v].row.payload.images)
    BY <1>1, ImagesOfRow DEF Seen, SeenInv
  <2>2. QED
    BY <1>1, <1>2, <1>4, <2>1 DEF GotInv
<1>7. StageInv(v)'
  BY <1>1, <1>2, <1>4 DEF StageInv
<1>8. QED
  BY <1>1, <1>2, <1>3, <1>4, <1>5, <1>6, <1>7 DEF RequestStep

\* The newest of the histories found are shown.
LEMMA ShowListStep ==
    ASSUME IInv, NEW v \in Servers, ShowList(v)
    PROVE  RequestStep(v) /\ srv'[v].op # "delete"
<1> DEFINE listed == Newest(srv[v].listed)
           q == [srv[v] EXCEPT !.pc = "shown", !.listed = listed]
<1>1. /\ IsRequest(srv[v]) /\ srv[v].op = "list" /\ StageInv(v)
      /\ srv' = [srv EXCEPT ![v] = q]
  BY DEF IInv, TypeInv, ShowList, AtEnd, ReadInv
<1>2. listed \subseteq srv[v].listed
  BY DEF Newest
<1> HIDE DEF listed
<1>3. /\ q.op = "list" /\ q.pc = "shown" /\ q.now = srv[v].now
      /\ q.at = srv[v].at /\ q.todo = srv[v].todo /\ q.listed = listed
      /\ q.gone = srv[v].gone
  BY <1>1 DEF IsRequest
<1>4. IsRequest(q)
  BY <1>1, Fields
<1> HIDE DEF q
<1>5. srv'[v] = q
  BY <1>1 DEF IInv, TypeInv
<1>6. Seen(v)' \subseteq Seen(v)
  BY <1>2, <1>3, <1>5 DEF Seen
<1>7. GotInv(v)' /\ StageInv(v)'
  BY <1>1, <1>3, <1>5 DEF GotInv, StageInv
<1>8. QED
  BY <1>1, <1>3, <1>4, <1>5, <1>6, <1>7 DEF RequestStep

\* A delete and a purge go on to the next database, or end.
LEMMA SweepStep ==
    ASSUME IInv, NEW v \in Servers, DeleteRow(v) \/ PurgeRows(v)
    PROVE  /\ RequestStep(v)
           /\ \/ srv'[v] = Idle
              \/ /\ srv'[v].at = srv[v].at + 1 /\ srv'[v].loc = srv[v].loc
                 /\ srv'[v].op = srv[v].op
<1> DEFINE n == NextStore(v)
           p == [n EXCEPT !.failed = TRUE]
<1>1. IsRequest(srv[v]) /\ srv[v].pc = "scan"
  BY DEF IInv, TypeInv, DeleteRow, PurgeRows, Scanning
<1>2. IsRequest(n)
  BY <1>1, Field DEF NextStore
<1>3. /\ n.at = srv[v].at + 1 /\ n.op = srv[v].op /\ n.pc = "scan"
      /\ n.loc = srv[v].loc /\ n.now = srv[v].now
      /\ n.got = srv[v].got /\ n.todo = srv[v].todo
      /\ n.listed = srv[v].listed /\ n.gone = srv[v].gone
  BY <1>1 DEF NextStore, IsRequest
<1> HIDE DEF n
<1>4. IsRequest(p)
  BY <1>2, Field
<1>5. /\ p.at = srv[v].at + 1 /\ p.op = srv[v].op /\ p.pc = "scan"
      /\ p.loc = srv[v].loc /\ p.now = srv[v].now
      /\ p.got = srv[v].got /\ p.todo = srv[v].todo
      /\ p.listed = srv[v].listed /\ p.gone = srv[v].gone
  BY <1>2, <1>3 DEF IsRequest
<1> HIDE DEF p
<1>6. \/ Reply(v) \/ srv' = [srv EXCEPT ![v] = n] \/ srv' = [srv EXCEPT ![v] = p]
  BY DEF DeleteRow, PurgeRows, AfterDelete, AfterFailure, n, p
<1>7. CASE Reply(v)
  BY <1>7, IdleStep
<1>8. CASE srv' = [srv EXCEPT ![v] = n]
  BY <1>1, <1>2, <1>3, <1>8, NextStep
<1>9. CASE srv' = [srv EXCEPT ![v] = p]
  BY <1>1, <1>4, <1>5, <1>9, NextStep
<1>10. QED
  BY <1>6, <1>7, <1>8, <1>9

-----------------------------------------------------------------------------
(* Every step keeps the invariant *)

\* What a server does to the databases: nothing, or it drops histories from
\* the one it is at.
LEMMA ServeStores ==
    ASSUME IInv, NEW v \in Servers, Serve(v)
    PROVE  /\ UNCHANGED <<kind, present, fresh, clock>>
           /\ rows' = [e \in Stores |-> rows'[e]]
           /\ images' = [e \in Stores |-> images'[e]]
           /\ RowsInv' /\ ImagesInv'
           /\ \A e \in Stores : rows'[e] \subseteq rows[e]
<1> DEFINE Goal == /\ rows' = [e \in Stores |-> rows'[e]]
                   /\ images' = [e \in Stores |-> images'[e]]
                   /\ RowsInv' /\ ImagesInv'
                   /\ \A e \in Stores : rows'[e] \subseteq rows[e]
<1>1. UNCHANGED <<kind, present, fresh, clock>>
  BY DEF Serve, SkipAbsent, GetRow, GetRefs, GetBody, ListRows, ListRefs,
         ShowDetail, ShowList, Answered, DeleteRow, DeleteDone, PurgeRows,
         PurgeDone
<1>2. \/ UNCHANGED <<rows, images>>
      \/ Ready(v) /\ \E deleted \in SUBSET rows[Db(v)] : DropRows(Db(v), deleted)
  <2>1. CASE DeleteRow(v)
    BY <2>1 DEF DeleteRow
  <2>2. CASE PurgeRows(v)
    BY <2>2 DEF PurgeRows
  <2>3. QED
    BY <2>1, <2>2
       DEF Serve, SkipAbsent, GetRow, GetRefs, GetBody, ListRows, ListRefs,
           ShowDetail, ShowList, Answered, DeleteDone, PurgeDone
<1>3. CASE UNCHANGED <<rows, images>>
  <2>1. \A r : RowOk(r) => RowOk(r)'
    BY <1>1, RowStays DEF IInv, TypeInv
  <2>2. RowsInv'
    BY <1>1, <1>3, <2>1 DEF IInv, RowsInv
  <2>3. ImagesInv'
    BY <1>3 DEF IInv, ImagesInv
  <2>4. QED
    BY <1>1, <1>3, <2>2, <2>3 DEF IInv, TypeInv
<1>4. ASSUME Ready(v), NEW deleted \in SUBSET rows[Db(v)], DropRows(Db(v), deleted)
      PROVE  Goal
  <2>1. Db(v) \in Stores
    BY <1>4 DEF Ready, IInv, TypeInv
  <2>2. QED
    BY <1>1, <1>4, <2>1, DropKeeps DEF IInv
<1>5. QED
  BY <1>1, <1>2, <1>3, <1>4

\* Every step of a server is a step of its request.
LEMMA ServeStep ==
    ASSUME IInv, NEW v \in Servers, Serve(v)
    PROVE  RequestStep(v)
<1>1. CASE Answered(v) \/ DeleteDone(v) \/ PurgeDone(v)
  BY <1>1, IdleStep DEF Answered, DeleteDone, PurgeDone
<1>2. QED
  BY <1>1, SkipAbsentStep, GetRowStep, GetRefsStep, GetBodyStep, ListRowsStep,
     ListRefsStep, ShowDetailStep, ShowListStep, SweepStep
     DEF Serve

\* Every statement, request, save and tick keeps the invariant.
LEMMA StepIInv == IInv /\ [Next]_vars => IInv'
<1> SUFFICES ASSUME IInv, [Next]_vars PROVE IInv'
  OBVIOUS
<1> USE DEF IInv
<1>1. ASSUME NEW v \in Servers, Serve(v) PROVE IInv'
  <2>1. /\ UNCHANGED <<kind, present, fresh, clock>>
        /\ rows' = [e \in Stores |-> rows'[e]]
        /\ images' = [e \in Stores |-> images'[e]]
        /\ RowsInv' /\ ImagesInv'
        /\ \A e \in Stores : rows'[e] \subseteq rows[e]
    BY <1>1, ServeStores
  <2>2. RequestStep(v)
    BY <1>1, ServeStep
  <2>3. RowsStep
    BY <2>1 DEF RowsStep, TypeInv
  <2>4. ReadInv'
    BY <2>2, <2>3, ReadKeeps
  <2>5. TypeInv'
    BY <2>1, <2>2 DEF TypeInv, RequestStep
  <2>6. QED
    BY <2>1, <2>4, <2>5
<1>2. CASE UNCHANGED <<kind, present, fresh, rows, images>>
           /\ clock' \in Nat
           /\ (UNCHANGED srv \/ \E v \in Servers : RequestStep(v))
  <2>1. RowsStep
    BY <1>2 DEF RowsStep, TypeInv
  <2>2. \A r : RowOk(r) => RowOk(r)'
    BY <1>2, RowStays DEF TypeInv
  <2>3. RowsInv'
    BY <1>2, <2>2 DEF RowsInv
  <2>4. ImagesInv'
    BY <1>2 DEF ImagesInv
  <2>5. CASE UNCHANGED srv
    <3>1. \A v \in Servers : SeenInv(v)'
      BY <2>1, <2>5, SeenStays DEF ReadInv
    <3>2. \A v \in Servers : GotInv(v)' /\ StageInv(v)'
      BY <1>2, <2>5 DEF ReadInv, GotInv, StageInv, Db, PathsOf
    <3>3. TypeInv'
      BY <1>2, <2>5 DEF TypeInv
    <3>4. QED
      BY <2>3, <2>4, <3>1, <3>2, <3>3 DEF ReadInv
  <2>6. ASSUME NEW v \in Servers, RequestStep(v) PROVE IInv'
    <3>1. ReadInv'
      BY <2>1, <2>6, ReadKeeps
    <3>2. TypeInv'
      BY <1>2, <2>6 DEF TypeInv, RequestStep
    <3>3. QED
      BY <2>3, <2>4, <3>1, <3>2
  <2>7. QED
    BY <1>2, <2>5, <2>6
<1>3. ASSUME NEW v \in Servers, Ask(v) PROVE IInv'
  <2>1. PICK op, loc : Request(v, op, loc)
    BY <1>3 DEF Ask, StartGet, StartList, StartDelete, StartPurge
  <2>2. RequestStep(v)
    BY <2>1, StartStep
  <2>3. UNCHANGED <<kind, present, fresh, rows, images, clock>>
    BY <2>1 DEF Request
  <2>4. QED
    BY <1>2, <2>2, <2>3 DEF TypeInv
<1>4. ASSUME NEW d \in Stores, NEW s \in Searches, NEW at \in 0..MaxTime,
             Save(d, s, at)
      PROVE  IInv'
  <2>1. at \in Nat
    BY StoresAssumption
  <2>2. /\ TypeInv' /\ RowsInv' /\ ImagesInv'
        /\ \A e \in Stores : \A r \in rows'[e] : r \in rows[e] \/ r.loc = fresh
    BY <1>4, <2>1, SaveKeepsStores
  <2>3. UNCHANGED <<kind, srv>> /\ fresh' = fresh + 1
    BY <1>4 DEF Save
  <2>4. RowsStep
    BY <2>2, <2>3 DEF RowsStep, TypeInv
  <2>5. \A v \in Servers : SeenInv(v)'
    BY <2>3, <2>4, SeenStays DEF ReadInv
  <2>6. \A v \in Servers : GotInv(v)' /\ StageInv(v)'
    BY <2>3 DEF ReadInv, GotInv, StageInv, Db, PathsOf
  <2>7. QED
    BY <2>2, <2>5, <2>6 DEF ReadInv
<1>5. CASE Tick
  BY <1>2, <1>5 DEF Tick, TypeInv
<1>6. CASE UNCHANGED vars
  BY <1>2, <1>6 DEF vars, TypeInv
<1>7. QED
  BY <1>1, <1>3, <1>4, <1>5, <1>6 DEF Next

\* Nothing is saved yet, or every database is a copy with one history.
LEMMA InitIInv == Init => IInv
<1> SUFFICES ASSUME Init PROVE IInv
  OBVIOUS
<1>1. /\ kind \in {"typed", "provisional"} /\ clock = 0
      /\ srv = [v \in Servers |-> Idle] /\ \A v \in Servers : srv[v] = Idle
  BY DEF Init
<1>2. IsRequest(Idle)
  BY DEF IsRequest, Idle
<1>3. \A v \in Servers : Seen(v) = {}
  BY <1>1 DEF Seen, Idle
<1>4. ReadInv
  BY <1>1, <1>3 DEF ReadInv, SeenInv, GotInv, StageInv, Idle
<1>5. CASE /\ present = {} /\ fresh = 0
           /\ rows = [d \in Stores |-> {}] /\ images = [d \in Stores |-> {}]
  <2>1. TypeInv
    BY <1>1, <1>2, <1>5 DEF TypeInv
  <2>2. RowsInv /\ ImagesInv
    BY <1>5 DEF RowsInv, ImagesInv
  <2>3. QED
    BY <1>4, <2>1, <2>2 DEF IInv
<1>6. ASSUME NEW s \in Searches,
             LET p == Snapshot(ResultOf[s])
                 r == [hid |-> <<s>>, loc |-> 0, key |-> Key(s, 0), search |-> s, at |-> 0,
                       refs |-> [i \in DOMAIN p.images |-> <<0, i>>], payload |-> p]
             IN /\ Buildable(ResultOf[s]) /\ ValidWrite(p)
                /\ present = Stores /\ fresh = 1
                /\ rows = [d \in Stores |-> {r}]
                /\ images = [d \in Stores |->
                     {[hid |-> <<s>>, pos |-> i, loc |-> <<0, i>>, body |-> <<s, p.images[i]>>] :
                        i \in DOMAIN p.images}]
      PROVE  IInv
  <2> DEFINE p == Snapshot(ResultOf[s])
             r == [hid |-> <<s>>, loc |-> 0, key |-> Key(s, 0), search |-> s,
                   at |-> 0, refs |-> [i \in DOMAIN p.images |-> <<0, i>>],
                   payload |-> p]
  <2>1. /\ ValidWrite(p) /\ present = Stores /\ fresh = 1
        /\ rows = [d \in Stores |-> {r}]
        /\ images = [d \in Stores |-> {ImageOf(r, i) : i \in DOMAIN p.images}]
    BY <1>6 DEF ImageOf
  <2>2. /\ r.loc = 0 /\ r.at = 0 /\ r.search = s /\ r.payload = p
        /\ r.key = Key(s, 0) /\ r.hid = <<s>>
        /\ r.refs = [i \in DOMAIN p.images |-> <<0, i>>]
    OBVIOUS
  <2> HIDE DEF r
  <2>3. RowOk(r)
    BY <2>1, <2>2 DEF RowOk
  <2>4. TypeInv
    BY <1>1, <1>2, <2>1 DEF TypeInv
  <2>5. RowsInv
    BY <2>1, <2>3 DEF RowsInv
  <2>6. ImagesInv
    BY <2>1, <2>2 DEF ImagesInv
  <2>7. QED
    BY <1>4, <2>4, <2>5, <2>6 DEF IInv
<1>7. QED
  BY <1>5, <1>6 DEF Init

\* The inductive invariant holds, whatever is saved, deleted, purged and read.
THEOREM Invariance == Spec => []IInv
<1>1. QED
  BY InitIInv, StepIInv, PTL DEF Spec

-----------------------------------------------------------------------------
(* The databases and what is shown of them *)

\* The image rows of a history, in order, are the ones it was saved with:
\* _load_detail finds nothing wrong with a history that is there.
LEMMA RefsMatch ==
    ASSUME IInv, NEW d \in Stores, NEW r \in rows[d]
    PROVE  ImageRefs(d, r.hid) = r.refs
<1> DEFINE n == Len(r.payload.images)
           mine == {i \in images[d] : i.hid = r.hid}
           f == [i \in 1..n |-> ImageOf(r, i)]
<1>1. RowOk(r) /\ n \in Nat /\ DOMAIN r.payload.images = 1..n
  BY ImagesOfRow DEF IInv, RowsInv
<1>2. \A x : x \in mine <=> \E i \in 1..n : x = ImageOf(r, i)
  <2>1. ASSUME NEW x \in mine PROVE \E i \in 1..n : x = ImageOf(r, i)
    <3>1. PICK e \in rows[d] : \E i \in DOMAIN e.payload.images : x = ImageOf(e, i)
      BY DEF IInv, ImagesInv
    <3>2. e.hid = r.hid
      BY <3>1 DEF ImageOf
    <3>3. e = r
      BY <3>2, IdOnce DEF IInv
    <3>4. QED
      BY <1>1, <3>1, <3>3
  <2>2. ASSUME NEW i \in 1..n PROVE ImageOf(r, i) \in mine
    <3>1. ImageOf(r, i) \in images[d]
      BY <1>1 DEF IInv, ImagesInv
    <3>2. QED
      BY <3>1 DEF ImageOf
  <2>3. QED
    BY <2>1, <2>2
<1>3. \A i : ImageOf(r, i).pos = i /\ ImageOf(r, i).loc = <<r.loc, i>>
  BY DEF ImageOf
<1> HIDE DEF mine, n
<1>4. Cardinality(mine) = n
  <2>1. f \in [1..n -> mine] /\ \A i \in 1..n : f[i] = ImageOf(r, i)
    BY <1>2
  <2> HIDE DEF f
  <2>2. \A i, j \in 1..n : f[i] = f[j] => i = j
    BY <1>3, <2>1
  <2>3. \A x \in mine : \E i \in 1..n : f[i] = x
    BY <1>2, <2>1
  <2>4. f \in Bijection(1..n, mine)
    BY <2>1, <2>2, <2>3 DEF Bijection, Injection, Surjection, IsInjective
  <2>5. IsFiniteSet(1..n) /\ Cardinality(1..n) = n
    BY <1>1, FS_Interval
  <2>6. QED
    BY <2>4, <2>5, FS_Bijection DEF ExistsBijection
<1>5. \A m \in 1..n : (CHOOSE i \in mine : i.pos = m) = ImageOf(r, m)
  BY <1>2, <1>3
<1>6. ImageRefs(d, r.hid) =
         [m \in 1..Cardinality(mine) |-> (CHOOSE i \in mine : i.pos = m).loc]
  BY DEF ImageRefs, mine
<1>7. ImageRefs(d, r.hid) = [m \in 1..n |-> <<r.loc, m>>]
  BY <1>3, <1>4, <1>5, <1>6
<1>8. r.refs = [m \in 1..n |-> <<r.loc, m>>]
  BY <1>1 DEF RowOk
<1>9. QED
  BY <1>7, <1>8

\* Whatever saves, deletes and purges were made, a database has a completed
\* search once, with exactly its images, and no image without its history:
\* the completion key, the cascade and one transaction each
\* (history_repository.py, provisional_history_repository.py).
THEOREM StoreTheorem == Spec => []StoreSound
<1>1. IInv => StoreSound
  <2> SUFFICES ASSUME IInv, NEW d \in Stores
               PROVE  /\ \A r1, r2 \in rows[d] : r1.key = r2.key => r1 = r2
                      /\ \A r \in rows[d] : DetailLoads(d, r)
                      /\ \A i \in images[d] : \E r \in rows[d] : r.hid = i.hid
    BY DEF StoreSound
  <2>1. \A r1, r2 \in rows[d] : r1.key = r2.key => r1 = r2
    BY DEF IInv, RowsInv
  <2>2. ASSUME NEW r \in rows[d] PROVE DetailLoads(d, r)
    <3>1. ImageRefs(d, r.hid) = r.refs
      BY RefsMatch
    <3>2. ValidWrite(r.payload)
      BY DEF IInv, RowsInv, RowOk
    <3>3. QED
      BY <3>1, <3>2
         DEF DetailLoads, TypedDetailLoads, ProvisionalDetailLoads, ValidWrite
  <2>3. \A i \in images[d] : \E r \in rows[d] : r.hid = i.hid
    BY DEF IInv, ImagesInv, ImageOf
  <2>4. QED
    BY <2>1, <2>2, <2>3
<1>2. QED
  BY <1>1, Invariance, PTL

\* A history that is shown is whole although it was read statement by
\* statement: the locators of its images are never used again, so a body that
\* is found belongs to it (get and get_image, browser_history.py).
THEOREM ReadsTheorem == Spec => []ReadsWhole
<1>1. IInv => ReadsWhole
  <2> SUFFICES ASSUME IInv, NEW v \in Servers, srv[v].pc = "shown"
               PROVE  /\ srv[v].op = "get" =>
                           LET r == srv[v].row
                           IN /\ Expires(r) > srv[v].now
                              /\ srv[v].got = [i \in DOMAIN r.payload.images |->
                                                 <<r.search, r.payload.images[i]>>]
                      /\ \A r \in srv[v].listed :
                            Expires(r) > srv[v].now /\ ValidWrite(r.payload)
    BY DEF ReadsWhole
  <2>1. \A r \in srv[v].listed : Expires(r) > srv[v].now /\ ValidWrite(r.payload)
    BY DEF IInv, ReadInv, SeenInv, Seen, RowOk
  <2>2. ASSUME srv[v].op = "get"
        PROVE  /\ Expires(srv[v].row) > srv[v].now
               /\ srv[v].got = [i \in DOMAIN srv[v].row.payload.images |->
                      <<srv[v].row.search, srv[v].row.payload.images[i]>>]
    <3>1. RowOk(srv[v].row) /\ Expires(srv[v].row) > srv[v].now
      BY <2>2 DEF IInv, ReadInv, SeenInv, Seen
    <3>2. DOMAIN srv[v].row.payload.images = 1..Len(srv[v].row.payload.images)
      BY <3>1, ImagesOfRow
    <3>3. QED
      BY <2>2, <3>1, <3>2 DEF IInv, ReadInv, GotInv
  <2>3. QED
    BY <2>1, <2>2
<1>2. QED
  BY <1>1, Invariance, PTL

-----------------------------------------------------------------------------
(* What was deleted *)

\* A deletion that is under way stays clear of its locator where it has been.
LEMMA ClearedStays ==
    ASSUME IInv, NEW v \in Servers, Cleared(v), RowsStep, srv'[v] = srv[v]
    PROVE  Cleared(v)'
<1>1. PathsOf(v)' = PathsOf(v)
  BY DEF PathsOf, RowsStep
<1>2. \A j \in DOMAIN PathsOf(v) : PathsOf(v)[j] \in Stores
  BY PathFacts
<1>3. ASSUME srv[v].op = "delete"
      PROVE  /\ srv[v].loc \in 0..(fresh' - 1)
             /\ \A j \in DOMAIN PathsOf(v) : j < srv[v].at =>
                   \A r \in rows'[PathsOf(v)[j]] : r.loc # srv[v].loc
  <2>1. srv[v].loc \in 0..(fresh - 1) /\ srv[v].loc # fresh
    BY <1>3 DEF Cleared, RowsStep
  <2>2. QED
    BY <1>2, <1>3, <2>1 DEF Cleared, RowsStep
<1>4. QED
  BY <1>1, <1>3 DEF Cleared

\* A locator made before a moment is made before any later one.
LEMMA MadeBefore ==
    ASSUME NEW a \in Nat, NEW b \in Nat, a <= b, NEW m \in 0..(a - 1)
    PROVE  m \in 0..(b - 1) /\ m # a
OBVIOUS

\* A step in which one request moves, and no deletion is acknowledged.
LEMMA GoneKeeps ==
    ASSUME IInv, GoneInv, RowsStep, gone' = gone,
           \/ UNCHANGED srv
           \/ \E v \in Servers : RequestStep(v) /\ Cleared(v)'
    PROVE  GoneInv'
<1>1. gone \subseteq 0..(fresh' - 1) /\ fresh \notin gone
  <2>1. gone \subseteq 0..(fresh - 1)
    BY DEF GoneInv
  <2>2. fresh \in Nat /\ fresh' \in Nat /\ fresh <= fresh'
    BY DEF RowsStep
  <2>3. ASSUME NEW m \in gone PROVE m \in 0..(fresh' - 1) /\ m # fresh
    <3>1. m \in 0..(fresh - 1)
      BY <2>1
    <3>2. QED
      BY <2>2, <3>1, MadeBefore
  <2>4. QED
    BY <2>3
<1>2. Served' = Served
  BY DEF Served, PathsOf, RowsStep
<1>3. \A d \in Served : \A r \in rows'[d] : r.loc \notin gone
  BY <1>1, ServedFacts DEF GoneInv, RowsStep
<1>4. ASSUME NEW u \in Servers, srv'[u] = srv[u]
      PROVE  /\ Cleared(u)' /\ srv'[u].gone \subseteq gone
             /\ \A r \in Seen(u)' : r.loc \notin srv'[u].gone
  <2>1. Seen(u)' = Seen(u)
    BY <1>4 DEF Seen
  <2>2. QED
    BY <1>4, <2>1, ClearedStays DEF GoneInv
<1>5. ASSUME NEW v \in Servers, RequestStep(v), Cleared(v)'
      PROVE  GoneInv'
  <2>1. \A u \in Servers : u # v => srv'[u] = srv[u]
    BY <1>5 DEF RequestStep, IInv, TypeInv
  <2>2. srv'[v].gone \subseteq gone
    BY <1>5 DEF RequestStep, GoneInv
  <2>3. \A r \in Seen(v)' : r.loc \notin srv'[v].gone
    BY <1>5, <2>2 DEF RequestStep, GoneInv
  <2>4. QED
    BY <1>1, <1>2, <1>3, <1>4, <1>5, <2>1, <2>2, <2>3 DEF GoneInv
<1>6. CASE UNCHANGED srv
  BY <1>1, <1>2, <1>3, <1>4, <1>6 DEF GoneInv
<1>7. QED
  BY <1>5, <1>6

\* A delete takes the locator out of the database it is at.
LEMMA DeleteClears ==
    ASSUME IInv, GoneInv, NEW v \in Servers, DeleteRow(v) \/ SkipAbsent(v)
    PROVE  Cleared(v)'
<1>1. /\ PathsOf(v)' = PathsOf(v) /\ fresh' = fresh
      /\ srv[v].at \in DOMAIN PathsOf(v) /\ Db(v) = PathsOf(v)[srv[v].at]
      /\ \A j \in DOMAIN PathsOf(v) : PathsOf(v)[j] \in Stores /\ j \in Nat
  <2>1. srv[v].at <= Len(PathsOf(v))
    BY DEF DeleteRow, SkipAbsent, Scanning
  <2>2. UNCHANGED <<kind, fresh>>
    BY DEF DeleteRow, SkipAbsent
  <2>3. QED
    BY <2>1, <2>2, DbFacts, PathFacts DEF Db, PathsOf
<1>2. CASE srv'[v] = Idle
  BY <1>2 DEF Cleared, Idle
<1>3. ASSUME srv'[v].at = srv[v].at + 1, srv'[v].loc = srv[v].loc,
             srv'[v].op = srv[v].op, srv[v].op = "delete",
             \A r \in rows'[Db(v)] : r.loc # srv[v].loc,
             \A e \in Stores : rows'[e] \subseteq rows[e]
      PROVE  Cleared(v)'
  <2>1. srv[v].at \in Nat
    BY DEF IInv, ReadInv, StageInv
  <2>2. /\ srv[v].loc \in 0..(fresh - 1)
        /\ \A j \in DOMAIN PathsOf(v) : j < srv[v].at =>
              \A r \in rows[PathsOf(v)[j]] : r.loc # srv[v].loc
    BY <1>3 DEF GoneInv, Cleared
  <2>3. \A j \in DOMAIN PathsOf(v) : j < srv'[v].at =>
           \A r \in rows'[PathsOf(v)[j]] : r.loc # srv'[v].loc
    <3>1. ASSUME NEW j \in DOMAIN PathsOf(v), j < srv[v].at + 1
          PROVE  \A r \in rows'[PathsOf(v)[j]] : r.loc # srv[v].loc
      <4>1. j < srv[v].at \/ j = srv[v].at
        BY <1>1, <2>1, <3>1
      <4>2. QED
        BY <1>1, <1>3, <2>2, <4>1
    <3>2. QED
      BY <1>3, <3>1
  <2>4. QED
    BY <1>1, <1>3, <2>2, <2>3 DEF Cleared
<1>4. CASE srv[v].op # "delete"
  <2>1. SkipAbsent(v)
    BY <1>4 DEF DeleteRow, Scanning
  <2>2. srv'[v] = NextStore(v) /\ IsRequest(srv[v])
    BY <2>1, SkipAbsentStep DEF IInv, TypeInv
  <2>3. srv'[v].op # "delete"
    BY <1>4, <2>2 DEF NextStore, IsRequest
  <2>4. QED
    BY <2>3 DEF Cleared
<1>5. CASE SkipAbsent(v) /\ srv[v].op = "delete"
  <2>1. srv'[v] = NextStore(v) /\ IsRequest(srv[v])
    BY <1>5, SkipAbsentStep DEF IInv, TypeInv
  <2>2. srv'[v].at = srv[v].at + 1 /\ srv'[v].loc = srv[v].loc /\ srv'[v].op = srv[v].op
    BY <2>1 DEF NextStore, IsRequest
  <2>3. UNCHANGED rows /\ rows[Db(v)] = {}
    BY <1>1, <1>5 DEF SkipAbsent, IInv, RowsInv
  <2>4. QED
    BY <1>3, <1>5, <2>2, <2>3
<1>6. CASE DeleteRow(v)
  <2>1. CASE Reply(v)
    BY <1>2, <2>1, IdleStep
  <2>2. CASE /\ Ready(v)
             /\ DropRows(Db(v), {r \in rows[Db(v)] : r.loc = srv[v].loc})
    <3>1. Db(v) \in Stores
      BY <2>2 DEF Ready, IInv, TypeInv
    <3>2. UNCHANGED <<kind, present, fresh>>
      BY <1>6 DEF DeleteRow
    <3>3. /\ rows'[Db(v)] = rows[Db(v)] \ {r \in rows[Db(v)] : r.loc = srv[v].loc}
          /\ \A e \in Stores : rows'[e] \subseteq rows[e]
      BY <2>2, <3>1, <3>2, DropKeeps DEF IInv
    <3>4. \A r \in rows'[Db(v)] : r.loc # srv[v].loc
      BY <3>3
    <3>5. QED
      BY <1>2, <1>3, <1>4, <1>6, <3>3, <3>4, SweepStep
  <2>3. QED
    BY <1>6, <2>1, <2>2 DEF DeleteRow
<1>7. QED
  BY <1>4, <1>5, <1>6

\* A deletion is acknowledged when no database that is served has the history.
LEMMA DeletedKeeps ==
    ASSUME SameDatabases, IInv, GoneInv, NEW v \in Servers, DeleteDone(v)
    PROVE  GoneInv'
<1> DEFINE loc == srv[v].loc
<1>1. /\ srv[v].op = "delete" /\ srv[v].at > Len(PathsOf(v))
      /\ gone' = gone \cup {loc} /\ UNCHANGED <<kind, rows, fresh>>
      /\ RequestStep(v) /\ srv'[v] = Idle
  BY IdleStep DEF DeleteDone, AtEnd
<1>2. loc \in 0..(fresh - 1)
  BY <1>1 DEF GoneInv, Cleared
<1>3. \A d \in Served : \A r \in rows[d] : r.loc # loc
  <2>1. ASSUME NEW d \in Served PROVE \E j \in DOMAIN PathsOf(v) : d = PathsOf(v)[j]
    BY ServedFacts DEF Range
  <2>2. srv[v].at \in Nat
    BY DEF IInv, ReadInv, StageInv
  <2>3. \A j \in DOMAIN PathsOf(v) : j < srv[v].at
    BY <1>1, <2>2, PathFacts
  <2>4. QED
    BY <1>1, <2>1, <2>3 DEF GoneInv, Cleared
<1>4. Served' = Served
  BY <1>1 DEF Served, PathsOf
<1>5. RowsStep
  BY <1>1 DEF RowsStep, IInv, TypeInv
<1>6. \A u \in Servers : u # v => srv'[u] = srv[u]
  BY <1>1 DEF RequestStep, IInv, TypeInv
<1>7. ASSUME NEW u \in Servers
      PROVE  /\ Cleared(u)' /\ srv'[u].gone \subseteq gone
             /\ \A r \in Seen(u)' : r.loc \notin srv'[u].gone
  <2>1. CASE u = v
    BY <1>1, <2>1 DEF Cleared, Seen, Idle
  <2>2. CASE u # v
    <3>1. srv'[u] = srv[u] /\ Seen(u)' = Seen(u)
      BY <1>6, <2>2 DEF Seen
    <3>2. QED
      BY <1>5, <3>1, ClearedStays DEF GoneInv
  <2>3. QED
    BY <2>1, <2>2
<1>8. QED
  BY <1>1, <1>2, <1>3, <1>4, <1>7 DEF GoneInv

\* Every step keeps what was deleted out of the tables and out of later reads.
LEMMA StepGone == SameDatabases /\ IInv /\ GoneInv /\ [Next]_vars => GoneInv'
<1> SUFFICES ASSUME SameDatabases, IInv, GoneInv, [Next]_vars PROVE GoneInv'
  OBVIOUS
<1>1. ASSUME NEW v \in Servers, Serve(v) PROVE GoneInv'
  <2>1. CASE DeleteDone(v)
    BY <2>1, DeletedKeeps
  <2>2. CASE ~DeleteDone(v)
    <3>1. RowsStep
      BY <1>1, ServeStores DEF RowsStep, IInv, TypeInv
    <3>2. gone' = gone
      BY <1>1, <2>2
         DEF Serve, SkipAbsent, GetRow, GetRefs, GetBody, ListRows, ListRefs,
             ShowDetail, ShowList, Answered, DeleteRow, PurgeRows, PurgeDone
    <3>3. Cleared(v)'
      <4>1. CASE SkipAbsent(v) \/ DeleteRow(v)
        BY <4>1, DeleteClears
      <4>2. CASE PurgeRows(v)
        <5>1. srv[v].op = "purge"
          BY <4>2 DEF PurgeRows, Scanning
        <5>2. Idle.op = "idle"
          BY DEF Idle
        <5>3. srv'[v].op # "delete"
          BY <4>2, <5>1, <5>2, SweepStep
        <5>4. QED
          BY <5>3 DEF Cleared
      <4>3. CASE Answered(v) \/ PurgeDone(v)
        <5>1. srv'[v] = Idle
          BY <4>3, IdleStep DEF Answered, PurgeDone
        <5>2. QED
          BY <5>1 DEF Cleared, Idle
      <4>4. CASE GetRow(v) \/ GetRefs(v) \/ GetBody(v) \/ ListRows(v)
                 \/ ListRefs(v) \/ ShowDetail(v) \/ ShowList(v)
        <5>1. srv'[v].op # "delete"
          BY <4>4, GetRowStep, GetRefsStep, GetBodyStep, ListRowsStep,
             ListRefsStep, ShowDetailStep, ShowListStep
        <5>2. QED
          BY <5>1 DEF Cleared
      <4>5. QED
        BY <1>1, <2>2, <4>1, <4>2, <4>3, <4>4 DEF Serve
    <3>4. QED
      BY <1>1, <3>1, <3>2, <3>3, ServeStep, GoneKeeps
  <2>3. QED
    BY <2>1, <2>2
<1>2. ASSUME NEW v \in Servers, Ask(v) PROVE GoneInv'
  <2>1. PICK op, loc : /\ Request(v, op, loc)
                       /\ op = "delete" => loc \in 0..(fresh - 1)
    BY <1>2 DEF Ask, StartGet, StartList, StartDelete, StartPurge
  <2>2. /\ RequestStep(v)
        /\ srv'[v].op = op /\ srv'[v].loc = loc /\ srv'[v].at = 1
    BY <2>1, StartStep
  <2>3. UNCHANGED <<kind, gone, fresh, rows>>
    BY <2>1 DEF Request
  <2>4. \A j \in DOMAIN PathsOf(v)' : ~(j < 1)
    <3>1. PathsOf(v)' = PathsOf(v)
      BY <2>3 DEF PathsOf
    <3>2. DOMAIN PathsOf(v) = 1..Len(PathsOf(v))
      BY PathFacts
    <3>3. \A j \in 1..Len(PathsOf(v)) : ~(j < 1)
      OBVIOUS
    <3>4. QED
      BY <3>1, <3>2, <3>3
  <2>5. Cleared(v)'
    BY <2>1, <2>2, <2>3, <2>4 DEF Cleared
  <2>6. QED
    BY <2>2, <2>3, <2>5, GoneKeeps DEF RowsStep, IInv, TypeInv
<1>3. ASSUME NEW d \in Stores, NEW s \in Searches, NEW at \in 0..MaxTime,
             Save(d, s, at)
      PROVE  GoneInv'
  <2>1. at \in Nat
    BY StoresAssumption
  <2>2. \A e \in Stores : \A r \in rows'[e] : r \in rows[e] \/ r.loc = fresh
    BY <1>3, <2>1, SaveKeepsStores DEF IInv
  <2>3. UNCHANGED <<kind, srv, gone>> /\ fresh' = fresh + 1
    BY <1>3 DEF Save
  <2>4. QED
    BY <2>2, <2>3, GoneKeeps DEF RowsStep, IInv, TypeInv
<1>4. CASE Tick \/ UNCHANGED vars
  <2>1. UNCHANGED <<kind, srv, gone, rows, fresh>>
    BY <1>4 DEF Tick, vars
  <2>2. QED
    BY <2>1, GoneKeeps DEF RowsStep, IInv, TypeInv
<1>5. QED
  BY <1>1, <1>2, <1>3, <1>4 DEF Next

\* Nothing is deleted in the databases the servers start with.
LEMMA InitGone == Init => GoneInv
<1> SUFFICES ASSUME Init PROVE GoneInv
  OBVIOUS
<1>1. gone = {} /\ \A v \in Servers : srv[v] = Idle
  BY DEF Init
<1>2. \A v \in Servers : Cleared(v) /\ srv[v].gone = {} /\ Seen(v) = {}
  BY <1>1 DEF Cleared, Seen, Idle
<1>3. QED
  BY <1>1, <1>2 DEF GoneInv

\* A history whose deletion was acknowledged is shown by no later request,
\* for any number of servers and databases, if the servers have the same
\* ones: delete goes through all of them, and a save makes new locators
\* (BrowserHistory.delete).
THEOREM DeletedTheorem ==
    ASSUME SameDatabases
    PROVE  Spec => []DeletedGone
<1>1. IInv /\ GoneInv => DeletedGone
  BY DEF GoneInv, DeletedGone, Seen
<1>2. IInv /\ GoneInv /\ [Next]_vars => GoneInv'
  BY StepGone
<1>3. QED
  BY <1>1, <1>2, InitGone, Invariance, PTL DEF Spec
-----------------------------------------------------------------------------
(* Usage ledger: the operators of the ledger *)

\* start, finish and release replace one reservation: the same request,
\* reserved at the same time, with another status.
LEMMA UpdatedFacts ==
    ASSUME NEW l \in Seq(Reservations), NEW i \in DOMAIN l,
           NEW status \in Statuses, NEW now \in Times,
           NEW m, m = Updated(l, i, status, now)
    PROVE  /\ m \in Seq(Reservations) /\ DOMAIN m = DOMAIN l
           /\ m[i].request = l[i].request /\ m[i].reserved_at = l[i].reserved_at
           /\ m[i].status = status
           /\ \A j \in DOMAIN l : j # i => m[j] = l[j]
<1>1. DOMAIN l = 1..Len(l) /\ l[i] \in Reservations
  BY LenProperties, ElementOfSeq
<1>2. PICK q : q = [l[i] EXCEPT !.status = status]
  OBVIOUS
<1>3. PICK r : r = [q EXCEPT !.last = now]
  OBVIOUS
<1>4. /\ q \in Reservations /\ q.status = status /\ q.request = l[i].request
      /\ q.reserved_at = l[i].reserved_at
  BY <1>1, <1>2 DEF Reservations
<1>5. /\ r \in Reservations /\ r.status = status /\ r.request = l[i].request
      /\ r.reserved_at = l[i].reserved_at
  BY <1>3, <1>4 DEF Reservations
<1>6. m = [l EXCEPT ![i] = r]
  BY <1>2, <1>3 DEF Updated
<1>7. m \in Seq(Reservations) /\ Len(m) = Len(l)
  BY <1>1, <1>5, <1>6, ExceptSeq
<1>8. DOMAIN m = DOMAIN l /\ m[i] = r /\ \A j \in DOMAIN l : j # i => m[j] = l[j]
  BY <1>6
<1>9. QED
  BY <1>5, <1>7, <1>8

\* The id of the reservation that reserve makes.
NextId(l) == Len(l) + 1

\* Ledger m is ledger l with one more reservation, for r.
HasJoined(l, m, r, now) ==
    /\ m \in Seq(Reservations)
    /\ DOMAIN m = DOMAIN l \cup {NextId(l)} /\ NextId(l) \notin DOMAIN l
    /\ m[NextId(l)].request = r /\ m[NextId(l)].reserved_at = now
    /\ \A j \in DOMAIN l : m[j] = l[j]

\* reserve adds a reservation behind the others.
LEMMA ReservedFacts ==
    ASSUME NEW l \in Seq(Reservations), NEW r \in Requests, NEW now \in Times,
           NEW m, m = Reserved(l, r, now)
    PROVE  HasJoined(l, m, r, now)
<1>1. PICK e : e = [request |-> r, status |-> "reserved", reserved_at |-> now,
                    last |-> now]
  OBVIOUS
<1>2. e \in Reservations /\ e.request = r /\ e.reserved_at = now
  BY <1>1 DEF Reservations, Statuses
<1>3. m = Append(l, e)
  BY <1>1 DEF Reserved
<1>4. /\ m \in Seq(Reservations) /\ Len(m) = Len(l) + 1 /\ m[Len(l) + 1] = e
      /\ \A j \in 1..Len(l) : m[j] = l[j]
  BY <1>2, <1>3, AppendProperties
<1>5. DOMAIN l = 1..Len(l) /\ DOMAIN m = 1..(Len(l) + 1) /\ Len(l) \in Nat
  BY <1>4, LenProperties
<1>6. DOMAIN m = DOMAIN l \cup {NextId(l)} /\ NextId(l) \notin DOMAIN l
  BY <1>5 DEF NextId
<1>7. m[NextId(l)] = e
  BY <1>4 DEF NextId
<1>8. QED
  BY <1>2, <1>4, <1>5, <1>6, <1>7 DEF HasJoined

-----------------------------------------------------------------------------
(* A step of the ledger *)

\* What may become of the status of a reservation.
Onward(status) ==
    CASE status = "reserved" -> {"reserved", "started", "released"}
      [] status = "started"  -> {"started", "succeeded", "failed"}
      [] OTHER -> {status}

\* Every method keeps the ledger a sequence of reservations, leaves each
\* reservation where it was made, by whom and when, and moves its status only
\* forward.
LEMMA StepFacts ==
    ASSUME TypeOK, [LedgerNext]_ledger
    PROVE  /\ TypeOK'
           /\ \A j \in DOMAIN ledger :
                 /\ j \in DOMAIN ledger'
                 /\ ledger'[j].request = ledger[j].request
                 /\ ledger'[j].reserved_at = ledger[j].reserved_at
                 /\ ledger'[j].status \in Onward(ledger[j].status)
<1> USE DEF TypeOK
<1>1. \A j \in DOMAIN ledger : ledger[j].status \in Statuses
                                 /\ ledger[j].status \in Onward(ledger[j].status)
  <2>1. ASSUME NEW j \in DOMAIN ledger PROVE ledger[j].status \in Statuses
    <3>1. j \in 1..Len(ledger)
      BY LenProperties
    <3>2. ledger[j] \in Reservations
      BY <3>1, ElementOfSeq
    <3>3. QED
      BY <3>2 DEF Reservations
  <2>2. \A status \in Statuses : status \in Onward(status)
    <3>1. /\ "reserved" \in Onward("reserved") /\ "started" \in Onward("started")
          /\ "succeeded" \in Onward("succeeded") /\ "failed" \in Onward("failed")
          /\ "released" \in Onward("released")
      BY DEF Onward
    <3>2. QED
      BY <3>1 DEF Statuses
  <2>3. QED
    BY <2>1, <2>2
<1>2. ASSUME NEW now \in Times, NEW i \in DOMAIN ledger, NEW status \in Statuses,
             status \in Onward(ledger[i].status),
             ledger' = Updated(ledger, i, status, now)
      PROVE  /\ TypeOK'
             /\ \A j \in DOMAIN ledger :
                   /\ j \in DOMAIN ledger'
                   /\ ledger'[j].request = ledger[j].request
                   /\ ledger'[j].reserved_at = ledger[j].reserved_at
                   /\ ledger'[j].status \in Onward(ledger[j].status)
  <2>1. PICK m : m = Updated(ledger, i, status, now)
    OBVIOUS
  <2>2. /\ m \in Seq(Reservations) /\ DOMAIN m = DOMAIN ledger
        /\ m[i].request = ledger[i].request
        /\ m[i].reserved_at = ledger[i].reserved_at /\ m[i].status = status
        /\ \A j \in DOMAIN ledger : j # i => m[j] = ledger[j]
    BY <2>1, UpdatedFacts
  <2>3. ledger' = m
    BY <1>2, <2>1
  <2>4. QED
    BY <1>1, <1>2, <2>2, <2>3
<1>3. ASSUME NEW now \in Times, NEW r \in Requests, NEW pricing,
             Reserve(r, pricing, now)
      PROVE  /\ TypeOK'
             /\ \A j \in DOMAIN ledger :
                   /\ j \in DOMAIN ledger'
                   /\ ledger'[j].request = ledger[j].request
                   /\ ledger'[j].reserved_at = ledger[j].reserved_at
                   /\ ledger'[j].status \in Onward(ledger[j].status)
  <2>1. PICK m : m = Reserved(ledger, r, now)
    OBVIOUS
  <2>2. HasJoined(ledger, m, r, now)
    BY <2>1, ReservedFacts
  <2>3. ledger' = m
    BY <1>3, <2>1 DEF Reserve
  <2>4. QED
    BY <1>1, <2>2, <2>3 DEF HasJoined
<1>4. ASSUME NEW now \in Times, NEW i \in DOMAIN ledger, NEW o, NEW s,
             Start(i, o, s, now)
      PROVE  \E status \in Statuses : /\ status \in Onward(ledger[i].status)
                                      /\ ledger' = Updated(ledger, i, status, now)
  <2>1. "started" \in Statuses /\ "started" \in Onward("reserved")
    BY DEF Statuses, Onward
  <2>2. QED
    BY <1>4, <2>1 DEF Start, CanUpdate
<1>5. ASSUME NEW now \in Times, NEW i \in DOMAIN ledger, NEW o, NEW s,
             NEW success \in BOOLEAN, Finish(i, o, s, success, now)
      PROVE  \E status \in Statuses : /\ status \in Onward(ledger[i].status)
                                      /\ ledger' = Updated(ledger, i, status, now)
  <2>1. {"succeeded", "failed"} \subseteq Statuses \cap Onward("started")
    BY DEF Statuses, Onward
  <2>2. PICK status \in {"succeeded", "failed"} :
            status = IF success THEN "succeeded" ELSE "failed"
    OBVIOUS
  <2>3. ledger[i].status = "started" /\ ledger' = Updated(ledger, i, status, now)
    BY <1>5, <2>2 DEF Finish, CanUpdate
  <2>4. QED
    BY <2>1, <2>3
<1>6. ASSUME NEW now \in Times, NEW i \in DOMAIN ledger, NEW o, NEW s,
             Release(i, o, s, now)
      PROVE  \E status \in Statuses : /\ status \in Onward(ledger[i].status)
                                      /\ ledger' = Updated(ledger, i, status, now)
  <2>1. "released" \in Statuses /\ "released" \in Onward("reserved")
    BY DEF Statuses, Onward
  <2>2. QED
    BY <1>6, <2>1 DEF Release, CanUpdate
<1>7. CASE UNCHANGED ledger
  BY <1>1, <1>7
<1>8. QED
  BY <1>2, <1>3, <1>4, <1>5, <1>6, <1>7 DEF LedgerNext

\* The ledger starts empty and every method keeps its type.
THEOREM LedgerTypes == LedgerSpec => []TypeOK
<1>1. LedgerInit => TypeOK
  BY DEF LedgerInit, TypeOK
<1>2. TypeOK /\ [LedgerNext]_ledger => TypeOK'
  BY StepFacts
<1>3. QED
  BY <1>1, <1>2, PTL DEF LedgerSpec

\* A started attempt is never refunded, moved or forgotten, and a finished
\* one is final, whatever the readings of the clock.
THEOREM StartedTheorem == LedgerSpec => StartedStaysCharged
<1>1. ASSUME TypeOK, [LedgerNext]_ledger
      PROVE  [\A i \in DOMAIN ledger :
                ledger[i].status \in {"started", "succeeded", "failed"} =>
                   /\ ledger'[i].request = ledger[i].request
                   /\ ledger'[i].reserved_at = ledger[i].reserved_at
                   /\ ledger'[i].status \in
                        IF ledger[i].status = "started"
                        THEN {"started", "succeeded", "failed"}
                        ELSE {ledger[i].status}]_ledger
  BY <1>1, StepFacts DEF Onward
<1>2. QED
  BY <1>1, LedgerTypes, PTL DEF LedgerSpec, StartedStaysCharged

-----------------------------------------------------------------------------
(* _scope_total: a sum is the number of the units that are charged *)

\* What reservation i charges to dimension d, and the units of d that the
\* reservations of a scope charge, one by one.
Charge(l, i, d) == l[i].request.amount[d]
Units(l, scope, d) == {u \in scope \X Nat : u[2] < Charge(l, u[1], d)}

\* The reservation _scope_total takes next, and the equation of its loop.
Pick(s) == CHOOSE x \in s : TRUE
SumsUp(f, l, scope, d) ==
    f = [s \in SUBSET scope |->
            IF s = {} THEN 0 ELSE Charge(l, Pick(s), d) + f[s \ {Pick(s)}]]

\* Among the subsets of a finite scope that have a property there is one none
\* of whose proper subsets has it: the induction on which the facts about
\* _scope_total rest.
LEMMA SmallestSubset ==
    ASSUME NEW S, IsFiniteSet(S), NEW B, B \in SUBSET (SUBSET S), B # {}
    PROVE  \E T \in B : \A U \in SUBSET T : U # T => U \notin B
<1>1. FiniteSubsetsOf(S) = SUBSET S
  BY FS_FiniteSubsetsOfFinite
<1>2. IsWellFoundedOn(StrictSubsetOrdering(S), SUBSET S)
  BY <1>1, FS_StrictSubsetOrderingWellFounded
<1>3. PICK T \in B : \A U \in B : ~(<<U, T>> \in StrictSubsetOrdering(S))
  BY <1>2, WFMin
<1>4. ASSUME NEW U \in SUBSET T, U # T, U \in B PROVE FALSE
  <2>1. <<U, T>> \in (SUBSET S) \X (SUBSET S)
    BY <1>4
  <2>2. <<U, T>> \in StrictSubsetOrdering(S)
    BY <1>4, <2>1 DEF StrictSubsetOrdering
  <2>3. QED
    BY <1>3, <1>4, <2>2
<1>5. QED
  BY <1>4

\* One reservation charges as many units as its request says.
LEMMA UnitsOfOne ==
    ASSUME NEW l, NEW d, NEW x, Charge(l, x, d) \in Nat
    PROVE  /\ IsFiniteSet(Units(l, {x}, d))
           /\ Cardinality(Units(l, {x}, d)) = Charge(l, x, d)
<1>1. PICK n \in Nat : n = Charge(l, x, d)
  OBVIOUS
<1>2. /\ IsFiniteSet(0..(n - 1)) /\ Cardinality(0..(n - 1)) = n
  <2>1. 0 \in Int /\ n - 1 \in Int
    OBVIOUS
  <2>2. /\ IsFiniteSet(0..(n - 1))
        /\ Cardinality(0..(n - 1)) = IF 0 > n - 1 THEN 0 ELSE (n - 1) - 0 + 1
    BY <2>1, FS_Interval
  <2>3. QED
    BY <2>2
<1>3. PICK f : f = [k \in 0..(n - 1) |-> <<x, k>>]
  OBVIOUS
<1>4. f \in Bijection(0..(n - 1), Units(l, {x}, d))
  <2>1. \A k \in 0..(n - 1) : k \in Nat /\ k < n
    OBVIOUS
  <2>2. f \in [0..(n - 1) -> Units(l, {x}, d)]
    BY <1>1, <1>3, <2>1 DEF Units
  <2>3. \A a, b \in 0..(n - 1) : f[a] = f[b] => a = b
    BY <1>3
  <2>4. \A u \in Units(l, {x}, d) : \E k \in 0..(n - 1) : f[k] = u
    BY <1>1, <1>3 DEF Units
  <2>5. QED
    BY <2>2, <2>3, <2>4, Fun_IsBij
<1>5. QED
  BY <1>1, <1>2, <1>4, FS_Bijection DEF ExistsBijection

\* A reservation more in a scope adds the units of its request.
LEMMA UnitsOfMore ==
    ASSUME NEW l, NEW d, NEW S, NEW x \in S, Charge(l, x, d) \in Nat,
           IsFiniteSet(Units(l, S \ {x}, d))
    PROVE  /\ IsFiniteSet(Units(l, S, d))
           /\ Cardinality(Units(l, S, d))
                = Charge(l, x, d) + Cardinality(Units(l, S \ {x}, d))
<1>1. PICK A : A = Units(l, S \ {x}, d)
  OBVIOUS
<1>2. PICK B : B = Units(l, {x}, d)
  OBVIOUS
<1>3. Units(l, S, d) = A \cup B /\ A \cap B = {}
  BY <1>1, <1>2 DEF Units
<1>4. IsFiniteSet(B) /\ Cardinality(B) = Charge(l, x, d)
  BY <1>2, UnitsOfOne
<1>5. IsFiniteSet(A) /\ Cardinality(A) \in Nat
  BY <1>1, FS_CardinalityType
<1>6. /\ IsFiniteSet(A \cup B)
      /\ Cardinality(A \cup B) = Cardinality(A) + Cardinality(B) - Cardinality(A \cap B)
  BY <1>4, <1>5, FS_Union
<1>7. Cardinality(A \cap B) = 0
  BY <1>3, FS_EmptySet
<1>8. Cardinality(A \cup B) = Charge(l, x, d) + Cardinality(A)
  BY <1>4, <1>5, <1>6, <1>7
<1>9. QED
  BY <1>1, <1>3, <1>6, <1>8

\* A finite scope charges finitely many units.
LEMMA UnitsFinite ==
    ASSUME NEW l, NEW d, NEW S, IsFiniteSet(S),
           \A i \in S : Charge(l, i, d) \in Nat
    PROVE  \A T \in SUBSET S : IsFiniteSet(Units(l, T, d))
<1>1. PICK B : B = {T \in SUBSET S : ~IsFiniteSet(Units(l, T, d))}
  OBVIOUS
<1>2. SUFFICES ASSUME B # {} PROVE FALSE
  BY <1>1
<1>3. B \in SUBSET (SUBSET S)
  BY <1>1
<1>4. PICK T \in B : \A U \in SUBSET T : U # T => U \notin B
  BY <1>2, <1>3, SmallestSubset
<1>5. T # {}
  <2>1. Units(l, {}, d) = {}
    BY DEF Units
  <2>2. IsFiniteSet(Units(l, {}, d))
    BY <2>1, FS_EmptySet
  <2>3. QED
    BY <1>1, <2>2
<1>6. PICK x \in T : TRUE
  BY <1>5
<1>7. T \in SUBSET S /\ x \in S /\ T \ {x} \in SUBSET S /\ T \ {x} # T
  BY <1>1, <1>6
<1>8. IsFiniteSet(Units(l, T \ {x}, d))
  BY <1>1, <1>4, <1>7
<1>9. QED
  BY <1>1, <1>6, <1>7, <1>8, UnitsOfMore

\* Whatever solves the loop's equation counts the units of the scope.
LEMMA SumsUpCounts ==
    ASSUME NEW l, NEW d, NEW S, IsFiniteSet(S),
           \A i \in S : Charge(l, i, d) \in Nat,
           NEW f, SumsUp(f, l, S, d)
    PROVE  f[S] = Cardinality(Units(l, S, d))
<1>1. PICK B : B = {T \in SUBSET S : f[T] # Cardinality(Units(l, T, d))}
  OBVIOUS
<1>2. SUFFICES ASSUME B # {} PROVE FALSE
  BY <1>1
<1>3. B \in SUBSET (SUBSET S)
  BY <1>1
<1>4. PICK T \in B : \A U \in SUBSET T : U # T => U \notin B
  BY <1>2, <1>3, SmallestSubset
<1>5. T \in SUBSET S /\ f[T] # Cardinality(Units(l, T, d))
  BY <1>1
<1>6. f[T] = IF T = {} THEN 0 ELSE Charge(l, Pick(T), d) + f[T \ {Pick(T)}]
  BY <1>5 DEF SumsUp
<1>7. T # {}
  <2>1. Units(l, {}, d) = {}
    BY DEF Units
  <2>2. Cardinality(Units(l, {}, d)) = 0
    BY <2>1, FS_EmptySet
  <2>3. QED
    BY <1>5, <1>6, <2>2
<1>8. Pick(T) \in T
  BY <1>7 DEF Pick
<1>9. T \ {Pick(T)} \in SUBSET S /\ T \ {Pick(T)} # T /\ Pick(T) \in S
  BY <1>5, <1>8
<1>10. f[T \ {Pick(T)}] = Cardinality(Units(l, T \ {Pick(T)}, d))
  BY <1>1, <1>4, <1>9
<1>11. IsFiniteSet(Units(l, T \ {Pick(T)}, d))
  BY <1>9, UnitsFinite
<1>12. Cardinality(Units(l, T, d)) =
          Charge(l, Pick(T), d) + Cardinality(Units(l, T \ {Pick(T)}, d))
  BY <1>8, <1>9, <1>11, UnitsOfMore
<1>13. QED
  BY <1>5, <1>6, <1>7, <1>10, <1>12

\* The loop's equation has a solution: the number of units of every subset.
LEMMA SumsUpExists ==
    ASSUME NEW l, NEW d, NEW S, IsFiniteSet(S),
           \A i \in S : Charge(l, i, d) \in Nat
    PROVE  \E f : SumsUp(f, l, S, d)
<1>1. PICK f : f = [s \in SUBSET S |-> Cardinality(Units(l, s, d))]
  OBVIOUS
<1>2. ASSUME NEW s \in SUBSET S
      PROVE  f[s] = IF s = {} THEN 0 ELSE Charge(l, Pick(s), d) + f[s \ {Pick(s)}]
  <2>1. CASE s = {}
    <3>1. Units(l, {}, d) = {}
      BY DEF Units
    <3>2. QED
      BY <1>1, <2>1, <3>1, FS_EmptySet
  <2>2. CASE s # {}
    <3>1. Pick(s) \in s
      BY <2>2 DEF Pick
    <3>2. IsFiniteSet(Units(l, s \ {Pick(s)}, d))
      BY UnitsFinite
    <3>3. Cardinality(Units(l, s, d)) =
            Charge(l, Pick(s), d) + Cardinality(Units(l, s \ {Pick(s)}, d))
      BY <3>1, <3>2, UnitsOfMore
    <3>4. QED
      BY <1>1, <2>2, <3>3
  <2>3. QED
    BY <2>1, <2>2
<1>3. f = [s \in SUBSET S |->
             IF s = {} THEN 0 ELSE Charge(l, Pick(s), d) + f[s \ {Pick(s)}]]
  BY <1>1, <1>2
<1>4. QED
  BY <1>3 DEF SumsUp

\* _scope_total counts the units that the reservations of the scope charge.
LEMMA TotalCounts ==
    ASSUME NEW l, NEW d, NEW S, IsFiniteSet(S),
           \A i \in S : Charge(l, i, d) \in Nat
    PROVE  Total(l, S, d) = Cardinality(Units(l, S, d))
<1>1. PICK f : f = CHOOSE g : SumsUp(g, l, S, d)
  OBVIOUS
<1>2. SumsUp(f, l, S, d)
  BY <1>1, SumsUpExists
<1>3. Total(l, S, d) = f[S]
  BY <1>1 DEF Total, MapThenSumSet, MapThenFoldSet, SumsUp, Pick, Charge
<1>4. QED
  BY <1>2, <1>3, SumsUpCounts

-----------------------------------------------------------------------------
(* Totals *)

\* A scope is a set of reservations of the ledger: it is finite, and each of
\* them charges a natural number of units.
LEMMA ScopeFacts ==
    ASSUME NEW l \in Seq(Reservations), NEW S \in SUBSET DOMAIN l,
           NEW d \in Dimensions
    PROVE  IsFiniteSet(S) /\ \A i \in S : Charge(l, i, d) \in Nat
<1>1. DOMAIN l = 1..Len(l) /\ Len(l) \in Nat
  BY LenProperties
<1>2. IsFiniteSet(1..Len(l))
  BY <1>1, FS_Interval
<1>3. IsFiniteSet(S)
  BY <1>1, <1>2, FS_Subset
<1>4. ASSUME NEW i \in S PROVE Charge(l, i, d) \in Nat
  <2>1. l[i] \in Reservations
    BY <1>1, ElementOfSeq
  <2>2. l[i].request.amount \in Amounts
    BY <2>1 DEF Reservations, Requests
  <2>3. l[i].request.amount \in [Dimensions -> Nat]
    BY <2>2, UsageLedgerAssumption
  <2>4. QED
    BY <2>3 DEF Charge
<1>5. QED
  BY <1>3, <1>4

\* Leaving reservations out of a scope does not raise its total.
LEMMA TotalGrows ==
    ASSUME NEW l \in Seq(Reservations), NEW S \in SUBSET DOMAIN l,
           NEW T \in SUBSET S, NEW d \in Dimensions
    PROVE  /\ Total(l, S, d) \in Nat /\ Total(l, T, d) \in Nat
           /\ Total(l, T, d) <= Total(l, S, d)
<1>1. /\ IsFiniteSet(S) /\ IsFiniteSet(T)
      /\ \A i \in S : Charge(l, i, d) \in Nat
      /\ \A i \in T : Charge(l, i, d) \in Nat
  BY ScopeFacts
<1>2. /\ Total(l, S, d) = Cardinality(Units(l, S, d))
      /\ Total(l, T, d) = Cardinality(Units(l, T, d))
  BY <1>1, TotalCounts
<1>3. IsFiniteSet(Units(l, S, d)) /\ IsFiniteSet(Units(l, T, d))
  BY <1>1, UnitsFinite
<1>4. Units(l, T, d) \in SUBSET Units(l, S, d)
  BY DEF Units
<1>5. QED
  BY <1>2, <1>3, <1>4, FS_CardinalityType, FS_Subset

\* Two ledgers with the same requests in a scope have the same total in it.
LEMMA TotalOfSame ==
    ASSUME NEW l \in Seq(Reservations), NEW m \in Seq(Reservations),
           NEW S, S \subseteq DOMAIN l, S \subseteq DOMAIN m,
           NEW d \in Dimensions, \A i \in S : m[i].request = l[i].request
    PROVE  Total(m, S, d) = Total(l, S, d)
<1>1. \A i \in S : Charge(m, i, d) = Charge(l, i, d)
  BY DEF Charge
<1>2. Units(m, S, d) = Units(l, S, d)
  BY <1>1 DEF Units
<1>3. /\ IsFiniteSet(S) /\ \A i \in S : Charge(l, i, d) \in Nat
      /\ \A i \in S : Charge(m, i, d) \in Nat
  BY ScopeFacts
<1>4. /\ Total(l, S, d) = Cardinality(Units(l, S, d))
      /\ Total(m, S, d) = Cardinality(Units(m, S, d))
  BY <1>3, TotalCounts
<1>5. QED
  BY <1>2, <1>4

\* A reservation that joins a scope adds what its request asks for.
LEMMA TotalOfMore ==
    ASSUME NEW l \in Seq(Reservations), NEW S, NEW x \in DOMAIN l,
           S \subseteq DOMAIN l, x \notin S, NEW d \in Dimensions
    PROVE  Total(l, S \cup {x}, d) = Charge(l, x, d) + Total(l, S, d)
<1>1. PICK T : T = S \cup {x}
  OBVIOUS
<1>2. T \in SUBSET DOMAIN l /\ S \in SUBSET DOMAIN l /\ T \ {x} = S /\ x \in T
  BY <1>1
<1>3. /\ IsFiniteSet(S) /\ IsFiniteSet(T)
      /\ \A i \in S : Charge(l, i, d) \in Nat
      /\ \A i \in T : Charge(l, i, d) \in Nat
  BY <1>2, ScopeFacts
<1>4. /\ Total(l, S, d) = Cardinality(Units(l, S, d))
      /\ Total(l, T, d) = Cardinality(Units(l, T, d))
  BY <1>3, TotalCounts
<1>5. IsFiniteSet(Units(l, T \ {x}, d))
  BY <1>2, <1>3, UnitsFinite
<1>6. Cardinality(Units(l, T, d)) =
        Charge(l, x, d) + Cardinality(Units(l, T \ {x}, d))
  BY <1>2, <1>3, <1>5, UnitsOfMore
<1>7. QED
  BY <1>1, <1>2, <1>4, <1>6

-----------------------------------------------------------------------------
(* The limits *)

\* What LimitsHold says, of the scopes that _would_exceed totals.
ScopesWithin(l) ==
    \A p \in Providers, d \in Dimensions : Policies[p].quota = "enforced" =>
        /\ \A o \in Owners, day \in {Day(t) : t \in Times} :
              Total(l, UserDay(l, p, o, day), d) <= Policies[p].per_user_day[d]
        /\ \A o \in Owners, s \in Sessions :
              Total(l, OfSession(l, p, o, s), d) <= Policies[p].per_session[d]
        /\ \A day \in {Day(t) : t \in Times} :
              Total(l, OnDay(l, p, day), d) <= Policies[p].global_day[d]

\* The scopes are sets of reservations, and the limits are natural numbers.
LEMMA ScopesAndLimits ==
    ASSUME NEW l, NEW p \in Providers, NEW d \in Dimensions
    PROVE  /\ \A o, day : UserDay(l, p, o, day) \in SUBSET DOMAIN l
           /\ \A o, s : OfSession(l, p, o, s) \in SUBSET DOMAIN l
           /\ \A day : OnDay(l, p, day) \in SUBSET DOMAIN l
           /\ Policies[p].per_user_day[d] \in Nat
           /\ Policies[p].per_session[d] \in Nat
           /\ Policies[p].global_day[d] \in Nat
<1>1. /\ \A o, day : UserDay(l, p, o, day) \in SUBSET DOMAIN l
      /\ \A o, s : OfSession(l, p, o, s) \in SUBSET DOMAIN l
      /\ \A day : OnDay(l, p, day) \in SUBSET DOMAIN l
  BY DEF UserDay, OfSession, OnDay, ChargedTo
<1>2. /\ Policies[p].per_user_day \in [Dimensions -> Nat]
      /\ Policies[p].per_session \in [Dimensions -> Nat]
      /\ Policies[p].global_day \in [Dimensions -> Nat]
  BY UsageLedgerAssumption
<1>3. QED
  BY <1>1, <1>2

\* start, finish and release keep every scope within its limit: they bring no
\* reservation into a scope, because a released one stays released.
LEMMA UpdateWithin ==
    ASSUME NEW l \in Seq(Reservations), NEW m \in Seq(Reservations),
           DOMAIN m = DOMAIN l,
           \A j \in DOMAIN l : /\ m[j].request = l[j].request
                               /\ m[j].reserved_at = l[j].reserved_at
                               /\ m[j].status \in Charged => l[j].status \in Charged,
           ScopesWithin(l)
    PROVE  ScopesWithin(m)
<1>1. ASSUME NEW p \in Providers, NEW d \in Dimensions,
             NEW S \in SUBSET DOMAIN l, NEW T \in SUBSET S, NEW limit \in Nat,
             Total(l, S, d) <= limit
      PROVE  Total(m, T, d) <= limit
  <2>1. Total(m, T, d) = Total(l, T, d)
    BY TotalOfSame
  <2>2. Total(l, S, d) \in Nat /\ Total(l, T, d) \in Nat
        /\ Total(l, T, d) <= Total(l, S, d)
    BY TotalGrows
  <2>3. QED
    BY <1>1, <2>1, <2>2
<1>2. ASSUME NEW p \in Providers
      PROVE  ChargedTo(m, p) \subseteq ChargedTo(l, p)
  BY DEF ChargedTo
<1>3. ASSUME NEW p \in Providers
      PROVE  /\ \A o, day : UserDay(m, p, o, day) \in SUBSET UserDay(l, p, o, day)
             /\ \A o, s : OfSession(m, p, o, s) \in SUBSET OfSession(l, p, o, s)
             /\ \A day : OnDay(m, p, day) \in SUBSET OnDay(l, p, day)
  <2>1. \A j \in ChargedTo(m, p) : j \in ChargedTo(l, p) /\ j \in DOMAIN l
    BY <1>2 DEF ChargedTo
  <2>2. QED
    BY <2>1 DEF UserDay, OfSession, OnDay
<1>4. SUFFICES ASSUME NEW p \in Providers, NEW d \in Dimensions,
                      Policies[p].quota = "enforced"
      PROVE  /\ \A o \in Owners, day \in {Day(t) : t \in Times} :
                  Total(m, UserDay(m, p, o, day), d) <= Policies[p].per_user_day[d]
             /\ \A o \in Owners, s \in Sessions :
                  Total(m, OfSession(m, p, o, s), d) <= Policies[p].per_session[d]
             /\ \A day \in {Day(t) : t \in Times} :
                  Total(m, OnDay(m, p, day), d) <= Policies[p].global_day[d]
  BY DEF ScopesWithin
<1>5. ASSUME NEW o \in Owners, NEW day \in {Day(t) : t \in Times}
      PROVE  Total(m, UserDay(m, p, o, day), d) <= Policies[p].per_user_day[d]
  <2>1. Total(l, UserDay(l, p, o, day), d) <= Policies[p].per_user_day[d]
    BY <1>4, <1>5 DEF ScopesWithin
  <2>2. QED
    BY <1>1, <1>3, <2>1, ScopesAndLimits
<1>6. ASSUME NEW o \in Owners, NEW s \in Sessions
      PROVE  Total(m, OfSession(m, p, o, s), d) <= Policies[p].per_session[d]
  <2>1. Total(l, OfSession(l, p, o, s), d) <= Policies[p].per_session[d]
    BY <1>4, <1>6 DEF ScopesWithin
  <2>2. QED
    BY <1>1, <1>3, <2>1, ScopesAndLimits
<1>7. ASSUME NEW day \in {Day(t) : t \in Times}
      PROVE  Total(m, OnDay(m, p, day), d) <= Policies[p].global_day[d]
  <2>1. Total(l, OnDay(l, p, day), d) <= Policies[p].global_day[d]
    BY <1>4, <1>7 DEF ScopesWithin
  <2>2. QED
    BY <1>1, <1>3, <2>1, ScopesAndLimits
<1>8. QED
  BY <1>5, <1>6, <1>7

\* reserve keeps a scope within its limit: the new reservation is in it only
\* when _would_exceed has added its amount to the scope's total.
LEMMA ReserveScope ==
    ASSUME NEW l \in Seq(Reservations), NEW r \in Requests, NEW now \in Times,
           NEW m, m = Reserved(l, r, now),
           NEW S \in SUBSET DOMAIN l, NEW T \in SUBSET (S \cup {NextId(l)}),
           NEW d \in Dimensions, NEW limit \in Nat,
           Total(l, S, d) <= limit,
           NextId(l) \in T => Total(l, S, d) + r.amount[d] <= limit
    PROVE  Total(m, T, d) <= limit
<1>1. PICK x : x = NextId(l)
  OBVIOUS
<1>2. /\ m \in Seq(Reservations) /\ DOMAIN m = DOMAIN l \cup {x} /\ x \notin DOMAIN l
      /\ m[x].request = r /\ \A j \in DOMAIN l : m[j] = l[j]
  <2>1. HasJoined(l, m, r, now)
    BY ReservedFacts
  <2>2. QED
    BY <1>1, <2>1 DEF HasJoined
<1>3. Total(m, S, d) = Total(l, S, d)
  <2>1. S \subseteq DOMAIN l /\ S \subseteq DOMAIN m
        /\ \A i \in S : m[i].request = l[i].request
    BY <1>2
  <2>2. QED
    BY <1>2, <2>1, TotalOfSame
<1>4. S \in SUBSET DOMAIN m /\ S \cup {x} \in SUBSET DOMAIN m
  BY <1>2
<1>5. Total(m, S, d) \in Nat
  BY <1>2, <1>4, TotalGrows
<1>6. CASE x \in T
  <2>1. Total(m, S \cup {x}, d) = Charge(m, x, d) + Total(m, S, d)
    BY <1>2, TotalOfMore
  <2>2. Charge(m, x, d) = r.amount[d]
    BY <1>2 DEF Charge
  <2>3. /\ Total(m, S \cup {x}, d) \in Nat /\ Total(m, T, d) \in Nat
        /\ Total(m, T, d) <= Total(m, S \cup {x}, d)
    BY <1>1, <1>2, <1>4, TotalGrows
  <2>4. Total(l, S, d) + r.amount[d] <= limit
    BY <1>1, <1>6
  <2>5. r.amount[d] \in Nat
    <3>1. r.amount \in [Dimensions -> Nat]
      BY UsageLedgerAssumption DEF Requests
    <3>2. QED
      BY <3>1
  <2>6. Charge(m, x, d) + Total(m, S, d) <= limit
    BY <1>3, <1>5, <2>2, <2>4, <2>5
  <2>7. Total(m, S \cup {x}, d) <= limit
    BY <2>1, <2>6
  <2>8. QED
    BY <2>3, <2>7
<1>7. CASE x \notin T
  <2>1. T \in SUBSET S
    BY <1>1, <1>7
  <2>2. Total(m, T, d) \in Nat /\ Total(m, T, d) <= Total(m, S, d)
    BY <1>2, <1>4, <2>1, TotalGrows
  <2>3. QED
    BY <1>3, <1>5, <2>2
<1>8. QED
  BY <1>6, <1>7

\* reserve keeps every scope within its limit.
LEMMA ReserveWithin ==
    ASSUME NEW l \in Seq(Reservations), NEW r \in Requests, NEW now \in Times,
           ~WouldExceed(l, r, now), NEW m, m = Reserved(l, r, now),
           ScopesWithin(l)
    PROVE  ScopesWithin(m)
<1>1. PICK x : x = NextId(l)
  OBVIOUS
<1>2. /\ DOMAIN m = DOMAIN l \cup {x} /\ x \notin DOMAIN l
      /\ m[x].request = r /\ m[x].reserved_at = now /\ \A j \in DOMAIN l : m[j] = l[j]
  <2>1. HasJoined(l, m, r, now)
    BY ReservedFacts
  <2>2. QED
    BY <1>1, <2>1 DEF HasJoined
<1>3. ASSUME NEW p
      PROVE  /\ ChargedTo(m, p) \subseteq ChargedTo(l, p) \cup {x}
             /\ x \in ChargedTo(m, p) => p = r.provider
             /\ \A j \in ChargedTo(m, p) : j # x => m[j] = l[j]
  BY <1>2 DEF ChargedTo
<1>4. ASSUME NEW p
      PROVE  /\ \A o, day : /\ UserDay(m, p, o, day) \in SUBSET (UserDay(l, p, o, day) \cup {x})
                            /\ x \in UserDay(m, p, o, day) =>
                                  p = r.provider /\ o = r.owner /\ day = Day(now)
             /\ \A o, s : /\ OfSession(m, p, o, s) \in SUBSET (OfSession(l, p, o, s) \cup {x})
                          /\ x \in OfSession(m, p, o, s) =>
                                p = r.provider /\ o = r.owner /\ s = r.session
             /\ \A day : /\ OnDay(m, p, day) \in SUBSET (OnDay(l, p, day) \cup {x})
                         /\ x \in OnDay(m, p, day) => p = r.provider /\ day = Day(now)
  BY <1>2, <1>3 DEF UserDay, OfSession, OnDay
<1>5. ASSUME Policies[r.provider].quota = "enforced", NEW d \in Dimensions
      PROVE  /\ Total(l, UserDay(l, r.provider, r.owner, Day(now)), d) + r.amount[d]
                  <= Policies[r.provider].per_user_day[d]
             /\ Total(l, OfSession(l, r.provider, r.owner, r.session), d) + r.amount[d]
                  <= Policies[r.provider].per_session[d]
             /\ Total(l, OnDay(l, r.provider, Day(now)), d) + r.amount[d]
                  <= Policies[r.provider].global_day[d]
  <2>1. /\ Within(l, UserDay(l, r.provider, r.owner, Day(now)), r.amount,
                  Policies[r.provider].per_user_day)
        /\ Within(l, OfSession(l, r.provider, r.owner, r.session), r.amount,
                  Policies[r.provider].per_session)
        /\ Within(l, OnDay(l, r.provider, Day(now)), r.amount,
                  Policies[r.provider].global_day)
    BY <1>5 DEF WouldExceed
  <2>2. QED
    BY <2>1 DEF Within
<1>6. SUFFICES ASSUME NEW p \in Providers, NEW d \in Dimensions,
                      Policies[p].quota = "enforced"
      PROVE  /\ \A o \in Owners, day \in {Day(t) : t \in Times} :
                  Total(m, UserDay(m, p, o, day), d) <= Policies[p].per_user_day[d]
             /\ \A o \in Owners, s \in Sessions :
                  Total(m, OfSession(m, p, o, s), d) <= Policies[p].per_session[d]
             /\ \A day \in {Day(t) : t \in Times} :
                  Total(m, OnDay(m, p, day), d) <= Policies[p].global_day[d]
  BY DEF ScopesWithin
<1>7. ASSUME NEW o \in Owners, NEW day \in {Day(t) : t \in Times}
      PROVE  Total(m, UserDay(m, p, o, day), d) <= Policies[p].per_user_day[d]
  <2>1. PICK S : S = UserDay(l, p, o, day)
    OBVIOUS
  <2>2. Total(l, S, d) <= Policies[p].per_user_day[d]
    BY <1>6, <1>7, <2>1 DEF ScopesWithin
  <2>3. S \in SUBSET DOMAIN l /\ UserDay(m, p, o, day) \in SUBSET (S \cup {x})
        /\ Policies[p].per_user_day[d] \in Nat
    BY <1>4, <2>1, ScopesAndLimits
  <2>4. x \in UserDay(m, p, o, day) =>
          Total(l, S, d) + r.amount[d] <= Policies[p].per_user_day[d]
    BY <1>4, <1>5, <1>6, <2>1
  <2>5. QED
    BY <1>1, <2>2, <2>3, <2>4, ReserveScope
<1>8. ASSUME NEW o \in Owners, NEW s \in Sessions
      PROVE  Total(m, OfSession(m, p, o, s), d) <= Policies[p].per_session[d]
  <2>1. PICK S : S = OfSession(l, p, o, s)
    OBVIOUS
  <2>2. Total(l, S, d) <= Policies[p].per_session[d]
    BY <1>6, <1>8, <2>1 DEF ScopesWithin
  <2>3. S \in SUBSET DOMAIN l /\ OfSession(m, p, o, s) \in SUBSET (S \cup {x})
        /\ Policies[p].per_session[d] \in Nat
    BY <1>4, <2>1, ScopesAndLimits
  <2>4. x \in OfSession(m, p, o, s) =>
          Total(l, S, d) + r.amount[d] <= Policies[p].per_session[d]
    BY <1>4, <1>5, <1>6, <2>1
  <2>5. QED
    BY <1>1, <2>2, <2>3, <2>4, ReserveScope
<1>9. ASSUME NEW day \in {Day(t) : t \in Times}
      PROVE  Total(m, OnDay(m, p, day), d) <= Policies[p].global_day[d]
  <2>1. PICK S : S = OnDay(l, p, day)
    OBVIOUS
  <2>2. Total(l, S, d) <= Policies[p].global_day[d]
    BY <1>6, <1>9, <2>1 DEF ScopesWithin
  <2>3. S \in SUBSET DOMAIN l /\ OnDay(m, p, day) \in SUBSET (S \cup {x})
        /\ Policies[p].global_day[d] \in Nat
    BY <1>4, <2>1, ScopesAndLimits
  <2>4. x \in OnDay(m, p, day) =>
          Total(l, S, d) + r.amount[d] <= Policies[p].global_day[d]
    BY <1>4, <1>5, <1>6, <2>1
  <2>5. QED
    BY <1>1, <2>2, <2>3, <2>4, ReserveScope
<1>10. QED
  BY <1>7, <1>8, <1>9

\* Every method keeps every scope within its limit.
LEMMA StepWithin ==
    ASSUME TypeOK, ScopesWithin(ledger), [LedgerNext]_ledger
    PROVE  ScopesWithin(ledger')
<1> USE DEF TypeOK
<1>1. CASE \E now \in Times, r \in Requests, pricing \in {"approved", "other"} :
              Reserve(r, pricing, now)
  <2>1. PICK now \in Times, r \in Requests, pricing \in {"approved", "other"} :
            Reserve(r, pricing, now)
    BY <1>1
  <2>2. PICK m : m = Reserved(ledger, r, now)
    OBVIOUS
  <2>3. ~WouldExceed(ledger, r, now) /\ ledger' = m
    BY <2>1, <2>2 DEF Reserve, CanReserve
  <2>4. QED
    BY <2>2, <2>3, ReserveWithin
<1>2. ASSUME NEW i \in DOMAIN ledger, NEW status \in Statuses, NEW now \in Times,
             ledger[i].status # "released" \/ status = "released",
             ledger' = Updated(ledger, i, status, now)
      PROVE  ScopesWithin(ledger')
  <2>1. PICK m : m = Updated(ledger, i, status, now)
    OBVIOUS
  <2>2. /\ m \in Seq(Reservations) /\ DOMAIN m = DOMAIN ledger
        /\ m[i].request = ledger[i].request
        /\ m[i].reserved_at = ledger[i].reserved_at /\ m[i].status = status
        /\ \A j \in DOMAIN ledger : j # i => m[j] = ledger[j]
    BY <2>1, UpdatedFacts
  <2>3. ledger[i].status \in Statuses
    <3>1. ledger[i] \in Reservations
      BY LenProperties, ElementOfSeq
    <3>2. QED
      BY <3>1 DEF Reservations
  <2>4. status \in Charged => ledger[i].status \in Charged
    BY <1>2, <2>3 DEF Charged, Statuses
  <2>5. \A j \in DOMAIN ledger :
           /\ m[j].request = ledger[j].request
           /\ m[j].reserved_at = ledger[j].reserved_at
           /\ m[j].status \in Charged => ledger[j].status \in Charged
    BY <2>2, <2>4
  <2>6. ledger' = m
    BY <1>2, <2>1
  <2>7. QED
    BY <2>2, <2>5, <2>6, UpdateWithin
<1>3. ASSUME NEW now \in Times, NEW i \in DOMAIN ledger, NEW o, NEW s,
             \/ Start(i, o, s, now)
             \/ \E success \in BOOLEAN : Finish(i, o, s, success, now)
             \/ Release(i, o, s, now)
      PROVE  \E status \in Statuses :
                /\ ledger[i].status # "released" \/ status = "released"
                /\ ledger' = Updated(ledger, i, status, now)
  <2>1. CASE Start(i, o, s, now)
    <3>1. /\ ledger[i].status = "reserved"
          /\ ledger' = Updated(ledger, i, "started", now)
      BY <2>1 DEF Start, CanUpdate
    <3>2. "started" \in Statuses
      BY DEF Statuses
    <3>3. QED
      BY <3>1, <3>2
  <2>2. ASSUME NEW success \in BOOLEAN, Finish(i, o, s, success, now)
        PROVE  \E status \in Statuses :
                  /\ ledger[i].status # "released" \/ status = "released"
                  /\ ledger' = Updated(ledger, i, status, now)
    <3>1. PICK status : status = IF success THEN "succeeded" ELSE "failed"
      OBVIOUS
    <3>2. status \in Statuses
      BY <3>1 DEF Statuses
    <3>3. ledger[i].status = "started" /\ ledger' = Updated(ledger, i, status, now)
      BY <2>2, <3>1 DEF Finish, CanUpdate
    <3>4. QED
      BY <3>2, <3>3
  <2>3. CASE Release(i, o, s, now)
    <3>1. ledger' = Updated(ledger, i, "released", now)
      BY <2>3 DEF Release
    <3>2. "released" \in Statuses
      BY DEF Statuses
    <3>3. QED
      BY <3>1, <3>2
  <2>4. QED
    BY <1>3, <2>1, <2>2, <2>3
<1>4. CASE UNCHANGED ledger
  BY <1>4
<1>5. QED
  BY <1>1, <1>2, <1>3, <1>4 DEF LedgerNext

\* The limits of the charged reservations are those of everything that was not
\* released.
LEMMA SpentIsCharged ==
    ASSUME TypeOK, ScopesWithin(ledger)
    PROVE  LimitsHold
<1>1. \A i \in DOMAIN ledger : ledger[i].status # "released"
                                 <=> ledger[i].status \in Charged
  <2>1. ASSUME NEW i \in DOMAIN ledger PROVE ledger[i].status \in Statuses
    <3>1. ledger[i] \in Reservations
      BY LenProperties, ElementOfSeq DEF TypeOK
    <3>2. QED
      BY <3>1 DEF Reservations
  <2>2. QED
    BY <2>1 DEF Statuses, Charged
<1>2. ASSUME NEW p \in Providers, NEW d \in Dimensions, Policies[p].quota = "enforced",
             NEW o \in Owners, NEW day \in {Day(t) : t \in Times}
      PROVE  Total(ledger, {i \in DOMAIN ledger :
                              ledger[i].status # "released" /\
                              (ledger[i].request.provider = p
                                 /\ ledger[i].request.owner = o
                                 /\ Day(ledger[i].reserved_at) = day)}, d)
               <= Policies[p].per_user_day[d]
  <2>1. {i \in DOMAIN ledger :
           ledger[i].status # "released" /\
           (ledger[i].request.provider = p /\ ledger[i].request.owner = o
              /\ Day(ledger[i].reserved_at) = day)} = UserDay(ledger, p, o, day)
    BY <1>1 DEF UserDay, ChargedTo
  <2>2. Total(ledger, UserDay(ledger, p, o, day), d) <= Policies[p].per_user_day[d]
    BY <1>2 DEF ScopesWithin
  <2>3. QED
    BY <2>1, <2>2
<1>3. ASSUME NEW p \in Providers, NEW d \in Dimensions, Policies[p].quota = "enforced",
             NEW o \in Owners, NEW s \in Sessions
      PROVE  Total(ledger, {i \in DOMAIN ledger :
                              ledger[i].status # "released" /\
                              (ledger[i].request.provider = p
                                 /\ ledger[i].request.owner = o
                                 /\ ledger[i].request.session = s)}, d)
               <= Policies[p].per_session[d]
  <2>1. {i \in DOMAIN ledger :
           ledger[i].status # "released" /\
           (ledger[i].request.provider = p /\ ledger[i].request.owner = o
              /\ ledger[i].request.session = s)} = OfSession(ledger, p, o, s)
    BY <1>1 DEF OfSession, ChargedTo
  <2>2. Total(ledger, OfSession(ledger, p, o, s), d) <= Policies[p].per_session[d]
    BY <1>3 DEF ScopesWithin
  <2>3. QED
    BY <2>1, <2>2
<1>4. ASSUME NEW p \in Providers, NEW d \in Dimensions, Policies[p].quota = "enforced",
             NEW day \in {Day(t) : t \in Times}
      PROVE  Total(ledger, {i \in DOMAIN ledger :
                              ledger[i].status # "released" /\
                              (ledger[i].request.provider = p
                                 /\ Day(ledger[i].reserved_at) = day)}, d)
               <= Policies[p].global_day[d]
  <2>1. {i \in DOMAIN ledger :
           ledger[i].status # "released" /\
           (ledger[i].request.provider = p /\ Day(ledger[i].reserved_at) = day)}
          = OnDay(ledger, p, day)
    BY <1>1 DEF OnDay, ChargedTo
  <2>2. Total(ledger, OnDay(ledger, p, day), d) <= Policies[p].global_day[d]
    BY <1>4 DEF ScopesWithin
  <2>3. QED
    BY <2>1, <2>2
<1>5. QED
  BY <1>2, <1>3, <1>4 DEF LimitsHold, Spent

\* from_snapshot finds every limit kept.
LEMMA WithinIsValid ==
    ASSUME TypeOK, ScopesWithin(ledger)
    PROVE  ValidSnapshot(ledger)
<1>1. ASSUME NEW p \in Providers, Policies[p].quota = "enforced",
             NEW i \in ChargedTo(ledger, p),
             NEW r, r = ledger[i].request,
             NEW day, day = Day(ledger[i].reserved_at),
             NEW none, none = [d \in Dimensions |-> 0]
      PROVE  /\ Within(ledger, UserDay(ledger, p, r.owner, day), none,
                       Policies[p].per_user_day)
             /\ Within(ledger, OfSession(ledger, p, r.owner, r.session), none,
                       Policies[p].per_session)
             /\ Within(ledger, OnDay(ledger, p, day), none, Policies[p].global_day)
  <2>1. ledger[i] \in Reservations
    BY LenProperties, ElementOfSeq DEF TypeOK, ChargedTo
  <2>2. r.owner \in Owners /\ r.session \in Sessions /\ day \in {Day(t) : t \in Times}
    BY <1>1, <2>1 DEF Reservations, Requests
  <2>3. ASSUME NEW d \in Dimensions
        PROVE  /\ Total(ledger, UserDay(ledger, p, r.owner, day), d)
                    <= Policies[p].per_user_day[d]
               /\ Total(ledger, OfSession(ledger, p, r.owner, r.session), d)
                    <= Policies[p].per_session[d]
               /\ Total(ledger, OnDay(ledger, p, day), d) <= Policies[p].global_day[d]
    BY <1>1, <2>2 DEF ScopesWithin
  <2>4. ASSUME NEW S \in SUBSET DOMAIN ledger, NEW d \in Dimensions
        PROVE  Total(ledger, S, d) + none[d] = Total(ledger, S, d)
    <3>1. Total(ledger, S, d) \in Nat
      BY TotalGrows DEF TypeOK
    <3>2. QED
      BY <1>1, <3>1
  <2>5. QED
    BY <2>3, <2>4, ScopesAndLimits DEF Within
<1>2. QED
  BY <1>1 DEF ValidSnapshot

\* Every scope of every ledger is within its limit: the inductive invariant,
\* stated of the scopes that reserve totals.
THEOREM WithinTheorem == LedgerSpec => [](TypeOK /\ ScopesWithin(ledger))
<1>1. LedgerInit => TypeOK /\ ScopesWithin(ledger)
  <2>1. ASSUME LedgerInit, NEW S, S \in SUBSET DOMAIN ledger, NEW d \in Dimensions
        PROVE  Total(ledger, S, d) = 0
    <3>1. TypeOK /\ S = {}
      BY <2>1 DEF LedgerInit, TypeOK
    <3>2. Total(ledger, S, d) = Cardinality(Units(ledger, S, d))
      BY <2>1, <3>1, ScopeFacts, TotalCounts DEF TypeOK
    <3>3. Units(ledger, S, d) = {}
      BY <3>1 DEF Units
    <3>4. QED
      BY <3>2, <3>3, FS_EmptySet
  <2>2. ASSUME LedgerInit, NEW p \in Providers, NEW d \in Dimensions
        PROVE  /\ \A o, day : Total(ledger, UserDay(ledger, p, o, day), d)
                                <= Policies[p].per_user_day[d]
               /\ \A o, s : Total(ledger, OfSession(ledger, p, o, s), d)
                                <= Policies[p].per_session[d]
               /\ \A day : Total(ledger, OnDay(ledger, p, day), d)
                                <= Policies[p].global_day[d]
    BY <2>1, <2>2, ScopesAndLimits
  <2>3. LedgerInit => TypeOK
    BY DEF LedgerInit, TypeOK
  <2>4. LedgerInit => ScopesWithin(ledger)
    BY <2>2 DEF ScopesWithin
  <2>5. QED
    BY <2>3, <2>4
<1>2. TypeOK /\ ScopesWithin(ledger) /\ [LedgerNext]_ledger
        => TypeOK' /\ ScopesWithin(ledger)'
  BY StepFacts, StepWithin
<1>3. QED
  BY <1>1, <1>2, PTL DEF LedgerSpec

\* No owner on a day, no session and no day ever exceeds what its provider's
\* policy allows, whatever the order of the calls and of their clock readings.
THEOREM LimitsTheorem == LedgerSpec => []LimitsHold
<1>1. TypeOK /\ ScopesWithin(ledger) => LimitsHold
  BY SpentIsCharged
<1>2. QED
  BY <1>1, WithinTheorem, PTL

\* from_snapshot accepts the snapshot of every ledger.
THEOREM RestorableTheorem == LedgerSpec => []Restorable
<1>1. TypeOK /\ ScopesWithin(ledger) => Restorable
  BY WithinIsValid DEF Restorable
<1>2. QED
  BY <1>1, WithinTheorem, PTL
=============================================================================
