---------------------------- MODULE HistoryStores ----------------------------
(* Search histories: the two SQLite repositories (history_repository.py for   *)
(* typed searches, provisional_history_repository.py for the browser), the    *)
(* snapshots they are given (history_snapshot.py,                             *)
(* provisional_history_snapshot.py) and the browser's view of several         *)
(* databases (browser_history.py, tools/browser_search_server.py).            *)
(*                                                                            *)
(* A database has a table of histories and a table of their images, joined by *)
(* history_id with ON DELETE CASCADE.  A save, a delete and a purge are one   *)
(* transaction each; a READ is not: the row, its image rows and every image   *)
(* body are statements of their own.  A server handles one request at a time, *)
(* but several servers may be given the same databases, the search's own      *)
(* worker saves meanwhile, a database may be a copy of another, may be locked *)
(* for a moment, or may be unreadable for good.                               *)
EXTENDS Integers, Sequences, FiniteSets, Functions

CONSTANTS
  Stores,         \* the databases
  Servers,        \* the processes that serve them
  Paths,          \* Paths[v]: the databases of server v, at least one, in order
  Asked,          \* Asked[v]: the requests server v gets
  Searches,       \* the completed searches (a completion key stands for each)
  ResultOf,       \* ResultOf[s]: what search s found, see Snapshot
  MaxListed,      \* the histories a list shows
  Retention,      \* HISTORY_RETENTION_DAYS, in ticks
  MaxTime,        \* bound: ticks of the clock
  MaxSaves,       \* bound: rows ever inserted
  MaxFaults       \* bound: unreadable databases, and statements that find one locked

ASSUME StoresAssumption ==
  /\ Retention \in Nat \ {0} /\ MaxTime \in Nat /\ MaxSaves \in Nat
  /\ \A v \in Servers : Paths[v] \in Seq(Stores) /\ Paths[v] # <<>>
ASSUME ResultsAssumption ==
  \A s \in Searches : ResultOf[s].conditions \in Nat /\ ResultOf[s].products \in Nat

VARIABLES
  kind,           \* the repository the databases belong to
  broken,         \* the databases that are unreadable for good
  present,        \* the databases whose file exists
  rows,           \* rows[d]: the table of histories
  images,         \* images[d]: the table of images
  srv,            \* srv[v]: the request server v is handling
  gone,           \* the locators whose deletion was acknowledged
  fresh,          \* locators made so far
  clock, faults

vars == <<kind, broken, present, rows, images, srv, gone, fresh, clock, faults>>

Angles == <<"front", "left", "right", "rear">>
-------------------------------------------------------------------------------
(* What is saved.                                                             *)

(* _reference_images of the typed snapshot: none, one (schema 3) or four      *)
(* views (schema 2) of the one reference.                                     *)
TypedImages(res) ==
  IF res.mode = "off" THEN <<>> ELSE IF res.schema = 3 THEN <<"front">> ELSE Angles
(* The provisional one: the desired image, then one per visual condition.     *)
ProvisionalImages(res) ==
  IF res.mode = "off" THEN <<>>
  ELSE <<"desired">> \o [i \in 1..res.conditions |-> i]

(* build_history_snapshot and build_provisional_history_snapshot: the ranked  *)
(* products in order, numbered from 1.                                        *)
TypedSnapshot(res) ==
  [mode |-> res.mode, schema |-> res.schema, images |-> TypedImages(res), png |-> res.png,
   ranks |-> [i \in 1..res.products |-> i], limit |-> res.limit]
ProvisionalSnapshot(res) ==
  [mode |-> res.mode, schema |-> 5, images |-> ProvisionalImages(res), png |-> res.png,
   ranks |-> [i \in 1..res.products |-> i], limit |-> res.limit]
Snapshot(res) == IF kind = "typed" THEN TypedSnapshot(res) ELSE ProvisionalSnapshot(res)

(* _validated_context: the review, the session, the approval and the ranked   *)
(* batch belong to one search.  The provisional builder asks the same of its  *)
(* images, and takes no empty image result.                                   *)
Buildable(res) == res.bound /\ (kind = "provisional" /\ res.mode = "on" => res.products > 0)

(* The keys that make a save idempotent: the typed one covers the completion  *)
(* time, the provisional one does not.                                        *)
TypedKey(s, at) == <<s, at>>
ProvisionalKey(s) == <<s>>
Key(s, at) == IF kind = "typed" THEN TypedKey(s, at) ELSE ProvisionalKey(s)

(* The images of a typed history, by schema; they are single-frame PNGs that  *)
(* match their digest.                                                        *)
TypedImagesValid(p) ==
  /\ p.images = (IF p.mode = "off" THEN <<>> ELSE IF p.schema = 3 THEN <<"front">> ELSE Angles)
  /\ p.images # <<>> => p.png
RanksHold(p) == p.ranks = [i \in DOMAIN p.ranks |-> i]
(* SearchHistoryWrite.validate_snapshot                                       *)
TypedValid(p) == TypedImagesValid(p) /\ Len(p.ranks) <= p.limit /\ RanksHold(p)

(* ProvisionalHistoryReferenceImageWrite.validate_image, and the evidence a   *)
(* history with images, or without, needs.                                    *)
ProvisionalImagesValid(p) ==
  /\ p.mode = "off" => p.images = <<>>
  /\ p.mode = "on" => p.ranks # <<>> /\ Len(p.images) >= 2 /\ p.png
(* ProvisionalHistoryWrite.validate_order                                     *)
ProvisionalValid(p) ==
  /\ ProvisionalImagesValid(p) /\ RanksHold(p)
  /\ p.mode = "on" =>
       p.images[1] = "desired" /\ \A i \in 2..Len(p.images) : p.images[i] = i - 1
(* _validated_pending                                                         *)
ValidWrite(p) == IF kind = "typed" THEN TypedValid(p) ELSE ProvisionalValid(p)
-------------------------------------------------------------------------------
(* The repositories.                                                          *)

(* A browser's history reads several databases, a typed repository its one.   *)
PathsOf(v) == IF kind = "typed" THEN <<Paths[v][1]>> ELSE Paths[v]
Served == UNION {Range(PathsOf(v)) : v \in Servers}

Expires(r) == r.at + Retention
Unexpired(d, now) == {r \in rows[d] : Expires(r) > now}
WithLocator(d, loc, now) == {r \in Unexpired(d, now) : r.loc = loc}
WithKey(d, k) == {r \in rows[d] : r.key = k}

(* history_id: random in one repository, the digest of owner and completion   *)
(* key in the other, so that a history saved again after it was deleted has   *)
(* the same id and other locators.                                            *)
HistoryId(s) == IF kind = "typed" THEN <<s, fresh>> ELSE <<s>>

(* The row and the image rows a save inserts.                                 *)
NewRow(s, at, p) ==
  [hid |-> HistoryId(s), loc |-> fresh, key |-> Key(s, at), search |-> s, at |-> at,
   refs |-> [i \in DOMAIN p.images |-> <<fresh, i>>], payload |-> p]
NewImages(s, p) ==
  {[hid |-> HistoryId(s), pos |-> i, loc |-> <<fresh, i>>, body |-> <<s, p.images[i]>>] :
     i \in DOMAIN p.images}

\* mutant: foreign keys are off on this connection
NoCascade(d, deleted) == images[d]
(* ON DELETE CASCADE: the images of the deleted rows go with them.            *)
Cascade(d, deleted) == {i \in images[d] : \A r \in deleted : i.hid # r.hid}

DropRows(d, deleted) ==
  /\ rows' = [rows EXCEPT ![d] = @ \ deleted]
  /\ images' = [images EXCEPT ![d] = Cascade(d, deleted)]

(* save: within retention, idempotent by completion key.  A key that is there *)
(* with the same payload is answered with the row; with another payload it is *)
(* a conflict; neither changes anything.                                      *)
Save(d, s, at) ==
  LET p == Snapshot(ResultOf[s])
  IN /\ d \in Served \ broken /\ fresh < MaxSaves
     /\ Buildable(ResultOf[s]) /\ ValidWrite(p)
     /\ at <= clock /\ clock < at + Retention
     /\ WithKey(d, Key(s, at)) = {}
     /\ present' = present \cup {d}
     /\ rows' = [rows EXCEPT ![d] = @ \cup {NewRow(s, at, p)}]
     /\ images' = [images EXCEPT ![d] = @ \cup NewImages(s, p)]
     /\ fresh' = fresh + 1
     /\ UNCHANGED <<kind, broken, srv, gone, clock, faults>>

(* The image rows of a history, in order: _load_detail compares them with the *)
(* references the row was saved with, and validates the detail again.         *)
ImageRefs(d, hid) ==
  LET mine == {i \in images[d] : i.hid = hid}
      at(n) == CHOOSE i \in mine : i.pos = n
  IN [n \in 1..Cardinality(mine) |-> at(n).loc]
TypedDetailLoads(d, r) == TypedValid(r.payload) /\ ImageRefs(d, r.hid) = r.refs
ProvisionalDetailLoads(d, r) == ProvisionalValid(r.payload) /\ ImageRefs(d, r.hid) = r.refs
DetailLoads(d, r) ==
  IF kind = "typed" THEN TypedDetailLoads(d, r) ELSE ProvisionalDetailLoads(d, r)
(* get_image: the image joined with its history, unexpired.                   *)
ImageBodies(d, loc, now) ==
  {i \in images[d] : i.loc = loc /\ \E r \in Unexpired(d, now) : r.hid = i.hid}
-------------------------------------------------------------------------------
(* A server.                                                                  *)

Idle == [op |-> "idle", pc |-> "scan", loc |-> 0, now |-> 0, at |-> 1, row |-> <<>>,
         got |-> <<>>, todo |-> {}, listed |-> {}, failed |-> FALSE, gone |-> {}]

Db(v) == PathsOf(v)[srv[v].at]
Scanning(v, op) ==
  /\ srv[v].op = op /\ srv[v].pc = "scan" /\ srv[v].at <= Len(PathsOf(v))
AtEnd(v, op) ==
  /\ srv[v].op = op /\ srv[v].pc = "scan" /\ srv[v].at > Len(PathsOf(v))
NextStore(v) == [srv[v] EXCEPT !.at = @ + 1]
Reply(v) == srv' = [srv EXCEPT ![v] = Idle]
\* the database answers this statement
Ready(v) == Db(v) \in present \ broken
(* sqlite3.Error: unreadable, or locked for longer than the timeout.          *)
Unavailable(v) ==
  \/ Db(v) \in broken \cap present /\ UNCHANGED faults
  \/ Db(v) \in present \ broken /\ faults < MaxFaults /\ faults' = faults + 1

Request(v, op, loc) ==
  /\ srv[v].op = "idle" /\ op \in Asked[v]
  /\ srv' = [srv EXCEPT ![v] = [Idle EXCEPT !.op = op, !.loc = loc, !.now = clock, !.gone = gone]]
  /\ UNCHANGED <<kind, broken, present, rows, images, gone, fresh, clock, faults>>

StartGet(v) == \E loc \in 0..(fresh - 1) : Request(v, "get", loc)
StartList(v) == Request(v, "list", 0)
StartDelete(v) == \E loc \in 0..(fresh - 1) : Request(v, "delete", loc)
(* maintenance, every minute, or the purge command.                           *)
StartPurge(v) == Request(v, "purge", 0)

(* A path with no file is skipped by every operation.                         *)
SkipAbsent(v) ==
  /\ srv[v].op # "idle" /\ srv[v].pc = "scan" /\ srv[v].at <= Len(PathsOf(v))
  /\ Db(v) \notin present
  /\ srv' = [srv EXCEPT ![v] = NextStore(v)]
  /\ UNCHANGED <<kind, broken, present, rows, images, gone, fresh, clock, faults>>

(* get: the row, from the first database that has it; 404 if none has.        *)
GetRow(v) ==
  /\ Scanning(v, "get")
  /\ \/ /\ Ready(v) /\ UNCHANGED faults
        /\ LET found == WithLocator(Db(v), srv[v].loc, srv[v].now)
           IN srv' = [srv EXCEPT ![v] =
                IF found = {} THEN NextStore(v)
                ELSE [@ EXCEPT !.pc = "refs", !.row = CHOOSE r \in found : TRUE]]
     \/ Unavailable(v) /\ Reply(v)
  /\ UNCHANGED <<kind, broken, present, rows, images, gone, fresh, clock>>

(* _load_detail: its image rows must be the ones it was saved with.           *)
GetRefs(v) ==
  /\ srv[v].op = "get" /\ srv[v].pc = "refs"
  /\ IF DetailLoads(Db(v), srv[v].row) THEN srv' = [srv EXCEPT ![v].pc = "bodies"] ELSE Reply(v)
  /\ UNCHANGED <<kind, broken, present, rows, images, gone, fresh, clock, faults>>

\* mutant: an image that is no longer there is left out
MissingSkipped(v) == [srv[v] EXCEPT !.got = Append(@, <<>>)]
(* An image that is no longer there ends the request with an error.           *)
Missing(v) == Idle

(* The bodies, one statement each.                                            *)
GetBody(v) ==
  /\ srv[v].op = "get" /\ srv[v].pc = "bodies" /\ Len(srv[v].got) < Len(srv[v].row.refs)
  /\ LET found == ImageBodies(Db(v), srv[v].row.refs[Len(srv[v].got) + 1], srv[v].now)
     IN srv' = [srv EXCEPT ![v] =
          IF found = {} THEN Missing(v)
          ELSE [srv[v] EXCEPT !.got = Append(srv[v].got, (CHOOSE i \in found : TRUE).body)]]
  /\ UNCHANGED <<kind, broken, present, rows, images, gone, fresh, clock, faults>>

(* list: the unexpired rows of every database, each with its image rows.      *)
ListRows(v) ==
  /\ Scanning(v, "list")
  /\ \/ /\ Ready(v) /\ UNCHANGED faults
        /\ srv' = [srv EXCEPT ![v].pc = "refs", ![v].todo = Unexpired(Db(v), srv[v].now)]
     \/ Unavailable(v) /\ Reply(v)
  /\ UNCHANGED <<kind, broken, present, rows, images, gone, fresh, clock>>

ListRefs(v) ==
  /\ srv[v].op = "list" /\ srv[v].pc = "refs"
  /\ IF srv[v].todo = {}
     THEN srv' = [srv EXCEPT ![v] = [NextStore(v) EXCEPT !.pc = "scan"]]
     ELSE LET r == CHOOSE x \in srv[v].todo : \A y \in srv[v].todo : x.loc >= y.loc
          IN IF DetailLoads(Db(v), r)
             THEN srv' = [srv EXCEPT ![v].todo = @ \ {r}, ![v].listed = @ \cup {r}]
             ELSE Reply(v)
  /\ UNCHANGED <<kind, broken, present, rows, images, gone, fresh, clock, faults>>

(* A history with its images.                                                 *)
ShowDetail(v) ==
  /\ srv[v].op = "get" /\ srv[v].pc = "bodies" /\ Len(srv[v].got) = Len(srv[v].row.refs)
  /\ srv' = [srv EXCEPT ![v].pc = "shown"]
  /\ UNCHANGED <<kind, broken, present, rows, images, gone, fresh, clock, faults>>
(* The newest histories, each locator once although two databases may have it.*)
Later(r1, r2) == r1.at > r2.at \/ (r1.at = r2.at /\ r1.loc > r2.loc)
Newest(found) == {r \in found : Cardinality({x \in found : Later(x, r)}) < MaxListed}
ShowList(v) ==
  /\ AtEnd(v, "list")
  /\ srv' = [srv EXCEPT ![v].pc = "shown", ![v].listed = Newest(@)]
  /\ UNCHANGED <<kind, broken, present, rows, images, gone, fresh, clock, faults>>
(* The request is over: what was shown, or 404.                               *)
Answered(v) ==
  /\ srv[v].pc = "shown" \/ AtEnd(v, "get")
  /\ Reply(v)
  /\ UNCHANGED <<kind, broken, present, rows, images, gone, fresh, clock, faults>>

\* mutant: the history has been found and deleted, so that is all
DeleteFirst(v, deleted) ==
  IF deleted = {} THEN NextStore(v) ELSE [srv[v] EXCEPT !.at = Len(PathsOf(v)) + 1]
(* delete goes on to the next database, whether the history was there or not. *)
AfterDelete(v, deleted) == NextStore(v)

DeleteRow(v) ==
  /\ Scanning(v, "delete")
  /\ \/ /\ Ready(v) /\ UNCHANGED faults
        /\ LET deleted == {r \in rows[Db(v)] : r.loc = srv[v].loc}
           IN DropRows(Db(v), deleted) /\ srv' = [srv EXCEPT ![v] = AfterDelete(v, deleted)]
     \/ Unavailable(v) /\ Reply(v) /\ UNCHANGED <<rows, images>>
  /\ UNCHANGED <<kind, broken, present, gone, fresh, clock>>
DeleteDone(v) ==
  /\ AtEnd(v, "delete")
  /\ gone' = gone \cup {srv[v].loc} /\ Reply(v)
  /\ UNCHANGED <<kind, broken, present, rows, images, fresh, clock, faults>>

\* mutant: the sweep stops at the first database it cannot clean
StopSweep(v) == [srv[v] EXCEPT !.at = Len(PathsOf(v)) + 1, !.failed = TRUE]
(* A sweep goes on to the next database, and the next sweep tries again.      *)
AfterFailure(v) == [NextStore(v) EXCEPT !.failed = TRUE]

PurgeRows(v) ==
  /\ Scanning(v, "purge")
  /\ \/ /\ Ready(v) /\ UNCHANGED faults
        /\ DropRows(Db(v), rows[Db(v)] \ Unexpired(Db(v), srv[v].now))
        /\ srv' = [srv EXCEPT ![v] = NextStore(v)]
     \/ Unavailable(v) /\ srv' = [srv EXCEPT ![v] = AfterFailure(v)] /\ UNCHANGED <<rows, images>>
  /\ UNCHANGED <<kind, broken, present, gone, fresh, clock>>
PurgeDone(v) ==
  /\ AtEnd(v, "purge")
  /\ Reply(v)
  /\ UNCHANGED <<kind, broken, present, rows, images, gone, fresh, clock, faults>>

Tick ==
  /\ clock < MaxTime /\ clock' = clock + 1
  /\ UNCHANGED <<kind, broken, present, rows, images, srv, gone, fresh, faults>>
-------------------------------------------------------------------------------
(* Nothing is saved yet, or a database was copied with a history in it.       *)
Init ==
  /\ kind \in {"typed", "provisional"}
  /\ broken \in {{}} \cup {{d} : d \in Stores}
  /\ \/ present = {} /\ fresh = 0
        /\ rows = [d \in Stores |-> {}] /\ images = [d \in Stores |-> {}]
     \/ \E s \in Searches :
          LET p == Snapshot(ResultOf[s])
              r == [hid |-> <<s>>, loc |-> 0, key |-> Key(s, 0), search |-> s, at |-> 0,
                    refs |-> [i \in DOMAIN p.images |-> <<0, i>>], payload |-> p]
          IN /\ Buildable(ResultOf[s]) /\ ValidWrite(p)
             /\ present = Stores /\ fresh = 1
             /\ rows = [d \in Stores |-> {r}]
             /\ images = [d \in Stores |->
                  {[hid |-> <<s>>, pos |-> i, loc |-> <<0, i>>, body |-> <<s, p.images[i]>>] :
                     i \in DOMAIN p.images}]
  /\ srv = [v \in Servers |-> Idle]
  /\ gone = {} /\ clock = 0 /\ faults = Cardinality(broken)

Serve(v) ==
  \/ SkipAbsent(v) \/ GetRow(v) \/ GetRefs(v) \/ GetBody(v) \/ ListRows(v) \/ ListRefs(v)
  \/ ShowDetail(v) \/ ShowList(v) \/ Answered(v) \/ DeleteRow(v) \/ DeleteDone(v) \/ PurgeRows(v) \/ PurgeDone(v)
Ask(v) == StartGet(v) \/ StartList(v) \/ StartDelete(v) \/ StartPurge(v)

Next ==
  \/ \E v \in Servers : Serve(v) \/ Ask(v)
  \/ \E d \in Stores, s \in Searches, at \in 0..MaxTime : Save(d, s, at)
  \/ Tick

Spec == Init /\ [][Next]_vars
(* A request is answered; serve_forever calls service_actions after every     *)
(* request, so a browser's sweep comes although others keep asking.  Nothing  *)
(* calls the purge of a typed repository by itself.                           *)
FairSpec ==
  /\ Spec
  /\ \A v \in Servers : WF_vars(Serve(v)) /\ SF_vars(kind = "provisional" /\ StartPurge(v))
-------------------------------------------------------------------------------
(* Properties.                                                                *)

(* What a server shows is a whole history: every image of it, of this very    *)
(* search, unexpired when the request was made, although a delete, a purge    *)
(* and another save may come between the statements of the read.              *)
ReadsWhole ==
  \A v \in Servers : srv[v].pc = "shown" =>
    /\ srv[v].op = "get" =>
         LET r == srv[v].row
         IN /\ Expires(r) > srv[v].now
            /\ srv[v].got = [i \in DOMAIN r.payload.images |-> <<r.search, r.payload.images[i]>>]
    /\ \A r \in srv[v].listed : Expires(r) > srv[v].now /\ ValidWrite(r.payload)

(* Once a server has answered that a history is deleted, no request that a    *)
(* server of the same databases takes later shows it, whichever database a    *)
(* copy of it was in.                                                         *)
DeletedGone ==
  \A v \in Servers : srv[v].pc = "shown" =>
    /\ srv[v].op = "get" => srv[v].row.loc \notin srv[v].gone
    /\ \A r \in srv[v].listed : r.loc \notin srv[v].gone

(* At any moment a database holds one history per completed search, each with *)
(* exactly its images, and no image without its history.                      *)
StoreSound ==
  \A d \in Stores :
    /\ \A r1, r2 \in rows[d] : r1.key = r2.key => r1 = r2
    /\ \A r \in rows[d] : DetailLoads(d, r)
    /\ \A i \in images[d] : \E r \in rows[d] : r.hid = i.hid

(* An expired history is deleted from every database a browser's server can   *)
(* read, even if another one cannot be read.                                  *)
ExpiredGone ==
  \A d \in Stores :
    (kind = "provisional" /\ d \in Served \ broken /\ rows[d] # Unexpired(d, clock))
      ~> (rows[d] = Unexpired(d, clock))
===============================================================================
