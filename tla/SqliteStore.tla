----------------------------- MODULE SqliteStore -----------------------------
(***************************************************************************)
(* The persistent backend (sqlite_store.rs): one connection behind a       *)
(* Mutex, and a database file that outlives the process.  push is several  *)
(* statements, each a transaction of its own and durable once it has       *)
(* returned: the mail, its attachments one by one, and the deletion of     *)
(* what exceeds --max.  The process may end between any two of them.  A    *)
(* statement that fails leaves the file as it was and is ignored.          *)
(*                                                                         *)
(* A mail is named by its arrival, as in EmailStorage.  Row ids grow with  *)
(* the rows present, so among those the order of arrival is the order of   *)
(* row ids, in which SQLite's sort leaves rows of one second.              *)
(***************************************************************************)
EXTENDS Integers, FiniteSets, Sequences

CONSTANTS
  Task,         \* tasks that call the store (SMTP sessions, HTTP handlers)
  NoTask,       \* nobody holds the connection's lock across steps
  Maxima,       \* values of --max that the program is started with
  Attachments,  \* number of attachments of a mail
  Faults,       \* what may go wrong, any number of times
  MaxPush,      \* bound: number of mails ever pushed
  MaxTime       \* bound: seconds of the clock

ASSUME TaskAssumption == NoTask \notin Task
ASSUME MaximaAssumption == Maxima # {} /\ Maxima \subseteq Nat
ASSUME FaultAssumption == Faults \subseteq {"crash", "disk", "clock"}
ASSUME BoundAssumption ==
  Attachments \in Nat /\ MaxPush \in Nat /\ MaxTime \in Nat

VARIABLES
  rows,      \* the table emails, each row with the number of its attachments
  up,        \* a process has the database open
  max,       \* SqliteStore::max of the last process to open it
  clock,     \* what strftime('%s', 'now') returns
  holder,    \* the task inside push that holds the lock, or NoTask
  todo,      \* attachments the holder has still to insert
  pc,        \* where each task is in its call
  listed,    \* the mails in what the task's last get_all returned
  pushed,    \* history: number of mails pushed
  accepted,  \* history: mails whose push went to its end
  refused,   \* history: mails whose INSERT failed
  deleted,   \* history: mails taken out by remove or clear
  faults     \* history: kinds of things that have gone wrong

callVars == <<holder, todo, pc, listed>>
historyVars == <<pushed, accepted, refused, deleted>>
vars == <<rows, up, max, clock, callVars, historyVars, faults>>

Row == [mail : 1..MaxPush, at : 0..MaxTime, parts : 0..Attachments]

(* pushing: holds the lock; notifying: lock released, notify.send not yet  *)
(* called.                                                                 *)
Location == {"idle", "pushing", "notifying"}

Goto(t, from, to) == pc[t] = from /\ pc' = [pc EXCEPT ![t] = to]

Mails == {r.mail : r \in rows}

(* crash: the process ends in mid-step; disk: a statement fails; clock:   *)
(* the system's clock is set back.                                        *)
Fault(kind) == kind \in Faults /\ faults' = faults \cup {kind}

(* No file yet; the first open creates the tables. *)
Init ==
  /\ rows = {} /\ up = FALSE /\ max \in Maxima /\ clock = 0
  /\ holder = NoTask /\ todo = 0
  /\ pc = [t \in Task |-> "idle"]
  /\ listed = [t \in Task |-> {}]
  /\ pushed = 0 /\ accepted = {} /\ refused = {} /\ deleted = {}
  /\ faults = {}

(* A task that is in no call finds the lock free. *)
Free(t) == up /\ holder = NoTask /\ pc[t] = "idle"

(***************************************************************************)
(* Slips that a change to the code could bring in, as in MemoryStore.      *)
(***************************************************************************)

(* ORDER BY created_at DESC in the subquery of the DELETE. *)
BeforeReversed(q, r) == q.at > r.at \/ (q.at = r.at /\ q.mail > r.mail)

(* `>=` for `>`, and one more goes than need be. *)
ExcessEarly ==
  IF Cardinality(rows) >= max THEN Cardinality(rows) - max + 1 ELSE 0

(* `> self.max + 1` for `> self.max`. *)
ExcessLate == IF Cardinality(rows) > max + 1 THEN Cardinality(rows) - max ELSE 0

(* LIMIT 1: what a push adds is all that a push takes away. *)
ExcessOne == IF Cardinality(rows) > max THEN 1 ELSE 0

(* The attachment is inserted under a row of its own. *)
PushAttachApart(t) ==
  /\ holder = t /\ todo > 0
  /\ todo' = todo - 1
  /\ \E r \in rows :
       /\ r.mail = pushed
       /\ rows' = rows \cup {[r EXCEPT !.parts = @ + 1]}
  /\ UNCHANGED <<up, max, clock, holder, pc, listed, historyVars, faults>>

(* push does not wait for its attachments. *)
PushEnforceFirst(t) ==
  /\ holder = t
  /\ Goto(t, "pushing", "notifying")
  /\ holder' = NoTask
  /\ todo' = 0
  /\ accepted' = accepted \cup {pushed}
  /\ rows' = rows
  /\ UNCHANGED <<up, max, clock, listed, pushed, refused, deleted, faults>>

(* The process ends in the middle of a push without being killed. *)
CloseUnlocked ==
  /\ up
  /\ up' = FALSE
  /\ pc' = [t \in Task |-> "idle"]
  /\ holder' = NoTask /\ todo' = 0
  /\ UNCHANGED <<rows, max, clock, listed, historyVars, faults>>
-----------------------------------------------------------------------------
(* open: the tables are created if they are not there.  Rows of an earlier *)
(* process stay as they are, also when there are more than this one keeps. *)
Open(m) ==
  /\ ~up
  /\ up' = TRUE
  /\ max' = m
  /\ UNCHANGED <<rows, clock, callVars, historyVars, faults>>

(* push: lock, then INSERT INTO emails; created_at is the second it runs   *)
(* in.                                                                     *)
PushInsert(t) ==
  /\ Free(t)
  /\ pushed < MaxPush
  /\ Goto(t, "idle", "pushing")
  /\ holder' = t
  /\ todo' = Attachments
  /\ pushed' = pushed + 1
  /\ rows' = rows \cup {[mail |-> pushed + 1, at |-> clock, parts |-> 0]}
  /\ UNCHANGED <<up, max, clock, listed, accepted, refused, deleted, faults>>

(* push: the INSERT fails.  Nothing else is tried, the change that was not *)
(* made is announced, and the caller is told nothing.                      *)
PushInsertFails(t) ==
  /\ Free(t)
  /\ pushed < MaxPush
  /\ Fault("disk")
  /\ Goto(t, "idle", "notifying")
  /\ pushed' = pushed + 1
  /\ refused' = refused \cup {pushed + 1}
  /\ accepted' = accepted \cup {pushed + 1}
  /\ UNCHANGED <<rows, up, max, clock, holder, todo, listed, deleted>>

(* push: one round of the loop over the attachments, for the row that has  *)
(* just been inserted: the lock has been held since.                       *)
PushAttach(t) ==
  /\ holder = t /\ todo > 0
  /\ todo' = todo - 1
  /\ \E r \in rows :
       /\ r.mail = pushed
       /\ rows' = (rows \ {r}) \cup {[r EXCEPT !.parts = @ + 1]}
  /\ UNCHANGED <<up, max, clock, holder, pc, listed, historyVars, faults>>

(* The same with `let _ =` swallowing an error. *)
PushAttachFails(t) ==
  /\ holder = t /\ todo > 0
  /\ Fault("disk")
  /\ todo' = todo - 1
  /\ UNCHANGED <<rows, up, max, clock, holder, pc, listed, historyVars>>

(* The order in which enforce_max takes rows. *)
Before(q, r) == q.at < r.at \/ (q.at = r.at /\ q.mail < r.mail)

(* enforce_max: to_delete, or nothing. *)
Excess == IF Cardinality(rows) > max THEN Cardinality(rows) - max ELSE 0

(* ORDER BY created_at ASC LIMIT k; the attachments go with their mails    *)
(* (ON DELETE CASCADE, which the bundled SQLite enforces by default).      *)
Oldest(k) ==
  {r \in rows : Cardinality({q \in rows : Before(q, r)}) < k}

(* push: enforce_max, then drop(conn).  The DELETE, or the COUNT before    *)
(* it, may fail; push goes to its end all the same.                        *)
PushEnforce(t) ==
  /\ holder = t /\ todo = 0
  /\ Goto(t, "pushing", "notifying")
  /\ holder' = NoTask
  /\ accepted' = accepted \cup {pushed}
  /\ \/ rows' = rows \ Oldest(Excess) /\ UNCHANGED faults
     \/ Fault("disk") /\ UNCHANGED rows
  /\ UNCHANGED <<up, max, clock, todo, listed, pushed, refused, deleted>>

(* clear, whose DELETE may fail; it is announced in either case. *)
Clear(t) ==
  /\ Free(t)
  /\ Goto(t, "idle", "notifying")
  /\ \/ /\ rows' = {}
        /\ deleted' = deleted \cup Mails
        /\ UNCHANGED faults
     \/ Fault("disk") /\ UNCHANGED <<rows, deleted>>
  /\ UNCHANGED <<up, max, clock, holder, todo, listed, pushed, accepted, refused>>

(* remove of a mail that is there.  When it is not, or the DELETE fails,   *)
(* the answer is false and nothing changes.                                *)
RemoveFound(t, r) ==
  /\ Free(t)
  /\ r \in rows
  /\ Goto(t, "idle", "notifying")
  /\ rows' = rows \ {r}
  /\ deleted' = deleted \cup {r.mail}
  /\ UNCHANGED <<up, max, clock, holder, todo, listed, pushed, accepted,
                 refused, faults>>

(* get_all; if its SELECT fails the list is empty.  The other readers take *)
(* the same lock and read the same tables.                                 *)
GetAll(t) ==
  /\ Free(t)
  /\ \/ listed' = [listed EXCEPT ![t] = Mails] /\ UNCHANGED faults
     \/ Fault("disk") /\ listed' = [listed EXCEPT ![t] = {}]
  /\ UNCHANGED <<rows, up, max, clock, holder, todo, pc, historyVars>>

(* `let _ = self.notify.send(())`. *)
Notify(t) ==
  /\ Goto(t, "notifying", "idle")
  /\ UNCHANGED <<rows, up, max, clock, holder, todo, listed, historyVars, faults>>

(* stop() calls close, which waits for the lock, and the process ends.     *)
(* The checkpoint does nothing: the database is not in WAL mode.           *)
Close ==
  /\ up /\ holder = NoTask
  /\ up' = FALSE
  /\ pc' = [t \in Task |-> "idle"]
  /\ UNCHANGED <<rows, max, clock, holder, todo, listed, historyVars, faults>>

(* The process is killed.  One that exits finishes the push it is in, where *)
(* there is no await (Sink has the rest of the end).                        *)
Crash ==
  /\ up
  /\ Fault("crash")
  /\ up' = FALSE
  /\ pc' = [t \in Task |-> "idle"]
  /\ holder' = NoTask /\ todo' = 0
  /\ UNCHANGED <<rows, max, clock, listed, historyVars>>

(* The system's clock, which created_at relies on. *)
Tick ==
  /\ clock < MaxTime
  /\ clock' = clock + 1
  /\ UNCHANGED <<rows, up, max, callVars, historyVars, faults>>

ClockSetBack ==
  /\ Fault("clock")
  /\ clock' \in 0..(clock - 1)
  /\ UNCHANGED <<rows, up, max, callVars, historyVars>>

Call(t) ==
  \/ PushInsert(t)
  \/ PushInsertFails(t)
  \/ PushAttach(t)
  \/ PushAttachFails(t)
  \/ PushEnforce(t)
  \/ Clear(t)
  \/ \E r \in rows : RemoveFound(t, r)
  \/ GetAll(t)
  \/ Notify(t)

Next ==
  \/ \E t \in Task : Call(t)
  \/ \E m \in Maxima : Open(m)
  \/ Close
  \/ Crash
  \/ Tick
  \/ ClockSetBack

Spec == Init /\ [][Next]_vars
-----------------------------------------------------------------------------
(* Types, the primary key of the table, and the lock: its holder is the    *)
(* task in push and there is none without a process.                       *)
TypeOK ==
  /\ rows \subseteq Row /\ Mails \subseteq 1..pushed
  /\ \A q, r \in rows : q.mail = r.mail => q = r
  /\ up \in BOOLEAN /\ max \in Maxima /\ clock \in 0..MaxTime
  /\ holder \in Task \cup {NoTask} /\ todo \in 0..Attachments
  /\ pc \in [Task -> Location]
  /\ \A t \in Task : pc[t] = "pushing" <=> holder = t
  /\ up \/ holder = NoTask
  /\ listed \in [Task -> SUBSET (1..pushed)]
  /\ pushed \in 0..MaxPush
  /\ accepted \subseteq 1..pushed /\ refused \subseteq 1..pushed
  /\ deleted \subseteq 1..pushed
  /\ faults \subseteq Faults

(***************************************************************************)
(* Until the clock is set back the database loses its oldest mails first,  *)
(* as the Vec does, over crashes between the statements of push, restarts  *)
(* with another --max and failed statements (sqlite_store.rs:62-74,        *)
(* 127-170): of two mails that were stored and that nobody deleted, it     *)
(* never has the older one without the newer.                              *)
(***************************************************************************)
LosesOldestFirst ==
  "clock" \notin faults =>
  \A new \in 1..pushed : \A old \in 1..(new - 1) :
    (old \in Mails /\ new \notin deleted \cup refused) => new \in Mails

(***************************************************************************)
(* What has been inserted is durable (sqlite_store.rs:133-149): a mail     *)
(* that is gone without having been deleted or refused has been followed   *)
(* by as many stored mails as the smallest --max in use, whatever crashed  *)
(* and whatever statement failed, until the clock is set back.             *)
(***************************************************************************)
EvictsOnlyWhenFull ==
  "clock" \notin faults =>
  \A m \in 1..pushed :
    m \notin Mails \cup deleted \cup refused =>
      \E n \in Maxima : Cardinality(((m + 1)..pushed) \ refused) >= n

(***************************************************************************)
(* push inserts a mail and its attachments as separate transactions        *)
(* (sqlite_store.rs:133-163), so a crash may leave a mail without them;    *)
(* but no such mail has been accepted, and its sender will try again.      *)
(* Only a failing statement can take an attachment from an accepted mail.  *)
(***************************************************************************)
WholeOnceAccepted ==
  "disk" \notin faults =>
  \A r \in rows : r.mail \in accepted => r.parts = Attachments

(***************************************************************************)
(* Whatever a crash before enforce_max or an earlier process with a larger *)
(* --max has left in the table (sqlite_store.rs:62-74), and whatever the   *)
(* clock did, a push brings it down to --max, not just down by one; unless *)
(* a statement fails.                                                      *)
(***************************************************************************)
PushTrims ==
  [][accepted' # accepted /\ "disk" \notin faults' => Cardinality(rows') <= max]_vars

(***************************************************************************)
(* A row too many is there only while push holds the lock                  *)
(* (sqlite_store.rs:127-170): no list is longer than every --max in use,   *)
(* whatever the clock does to the order of eviction.  A push cut short by  *)
(* a crash, or whose DELETE failed, does leave its row behind.             *)
(***************************************************************************)
ListsBounded ==
  faults \subseteq {"clock"} =>
  \A t \in Task : \E n \in Maxima : Cardinality(listed[t]) <= n

(***************************************************************************)
(* Until something goes wrong, the backend is what the trait promises      *)
(* (store.rs:18-29), over orderly restarts with any --max as well: it      *)
(* keeps the newest mails, push takes effect when it takes the lock, and   *)
(* no reader and no other call sees its intermediate states.  A list       *)
(* counts for its mails, not for their order: the SELECT sorts by second.  *)
(***************************************************************************)
InArrivalOrder(mails) ==
  CHOOSE s \in [1..Cardinality(mails) -> mails] :
    \A i, j \in DOMAIN s : i < j => s[i] < s[j]

(* While push is at it, the mails that it will leave. *)
Retained ==
  LET mails == InArrivalOrder(Mails) IN
  IF holder = NoTask \/ Len(mails) <= max
    THEN mails
    ELSE SubSeq(mails, Len(mails) - max + 1, Len(mails))

Storage == INSTANCE EmailStorage WITH
  mails <- Retained,
  Capacities <- Maxima,
  capacity <- max,
  snapshot <- [t \in Task |-> InArrivalOrder(listed[t])]

ImplementsStorage ==
  /\ Storage!Init
  /\ [][faults' = {} => Storage!Next \/ UNCHANGED Storage!vars]_vars

(***************************************************************************)
(* A push that went to its end is answered "250 OK: queued"                *)
(* (smtp.rs:419-421): the mail is in the table until it is deleted or as   *)
(* many mails as --max have come after it.  push ignores a failed INSERT   *)
(* (sqlite_store.rs:149).                                                  *)
(***************************************************************************)
AcceptedIsStored ==
  \A m \in accepted : m \in Mails \cup deleted \/ pushed - m >= max

=============================================================================
