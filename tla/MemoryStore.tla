----------------------------- MODULE MemoryStore -----------------------------
(***************************************************************************)
(* The in-memory backend (store.rs): a Vec behind an RwLock, shared by the *)
(* tasks of all SMTP sessions and HTTP requests.  push is the only call    *)
(* with intermediate states: it appends and then drops mails from the      *)
(* front one by one, and for that time the Vec holds more than the store   *)
(* may keep.  Each step of that loop is a step here; the lock is what      *)
(* hides them.  Every change is announced on the broadcast channel only    *)
(* after the lock is released, so a task that has changed the Vec may be   *)
(* arbitrarily late in saying so.                                          *)
(***************************************************************************)
EXTENDS Naturals, Sequences, SequencesExt

CONSTANTS
  Task,       \* tasks that call the store (SMTP sessions, HTTP handlers)
  NoTask,     \* the lock is not held for writing
  MaxMails,   \* MemoryStore::max
  MaxPush     \* bound: number of mails ever pushed

ASSUME TaskAssumption == NoTask \notin Task
ASSUME BoundAssumption == MaxMails \in Nat /\ MaxPush \in Nat

VARIABLES
  emails,     \* the Vec: mails named by arrival number, as in EmailStorage
  writer,     \* the task inside push that holds the write lock, or NoTask
  pc,         \* where each task is in its call
  snapshot,   \* what the task's last get_all returned
  pushed,     \* history: number of mails pushed
  deleted     \* history: mails taken out by remove or clear

storeVars == <<emails, writer, pc, snapshot, pushed, deleted>>

(* idle: not in a call; evicting: in push, holding the lock;               *)
(* notifying: lock released, notify.send not yet called.                   *)
Location == {"idle", "evicting", "notifying"}

Goto(t, from, to) == pc[t] = from /\ pc' = [pc EXCEPT ![t] = to]

Init ==
  /\ emails = <<>>
  /\ writer = NoTask
  /\ pc = [t \in Task |-> "idle"]
  /\ snapshot = [t \in Task |-> <<>>]
  /\ pushed = 0
  /\ deleted = {}

(***************************************************************************)
(* Slips that a change to the code could bring in.  No step uses them: put *)
(* in the place of the action each is named after, they show that the      *)
(* properties below can tell.                                              *)
(***************************************************************************)

(* The mail takes a number that is in use. *)
PushInsertReused(t) ==
  /\ writer = NoTask
  /\ pushed < MaxPush
  /\ Goto(t, "idle", "evicting")
  /\ writer' = t
  /\ pushed' = pushed + 1
  /\ emails' = Append(emails, pushed)
  /\ UNCHANGED <<snapshot, deleted>>

(* The loop drops the mail that has just come in. *)
PushEvictNewest(t) ==
  /\ pc[t] = "evicting"
  /\ Len(emails) > MaxMails
  /\ emails' = Front(emails)
  /\ UNCHANGED <<writer, pc, snapshot, pushed, deleted>>

(* `>=` in the loop's condition. *)
PushEvictEarly(t) ==
  /\ pc[t] = "evicting"
  /\ Len(emails) >= MaxMails /\ emails # <<>>
  /\ emails' = Tail(emails)
  /\ UNCHANGED <<writer, pc, snapshot, pushed, deleted>>

(* The lock is dropped before the loop is over. *)
PushUnlockEarly(t) ==
  /\ Goto(t, "evicting", "notifying")
  /\ writer' = NoTask
  /\ UNCHANGED <<emails, snapshot, pushed, deleted>>

(* clear tells nobody. *)
ClearSilently(t) ==
  /\ writer = NoTask
  /\ Goto(t, "idle", "idle")
  /\ emails' = <<>>
  /\ deleted' = deleted \cup ToSet(emails)
  /\ UNCHANGED <<writer, snapshot, pushed>>

(* Vec::swap_remove for Vec::remove. *)
RemoveFoundSwap(t, i) ==
  /\ writer = NoTask
  /\ i \in DOMAIN emails
  /\ Goto(t, "idle", "notifying")
  /\ emails' = Front([emails EXCEPT ![i] = Last(emails)])
  /\ deleted' = deleted \cup {emails[i]}
  /\ UNCHANGED <<writer, snapshot, pushed>>

(* The Vec is read without its lock. *)
GetAllUnlocked(t) ==
  /\ pc[t] = "idle"
  /\ snapshot' = [snapshot EXCEPT ![t] = emails]
  /\ UNCHANGED <<emails, writer, pc, pushed, deleted>>
-----------------------------------------------------------------------------
(* push: take the write lock and append.  The mail is new: ids are fresh. *)
PushInsert(t) ==
  /\ writer = NoTask
  /\ pushed < MaxPush
  /\ Goto(t, "idle", "evicting")
  /\ writer' = t
  /\ pushed' = pushed + 1
  /\ emails' = Append(emails, pushed + 1)
  /\ UNCHANGED <<snapshot, deleted>>

(* push: one round of `while emails.len() > max { emails.remove(0) }`. *)
PushEvict(t) ==
  /\ pc[t] = "evicting"
  /\ Len(emails) > MaxMails
  /\ emails' = Tail(emails)
  /\ UNCHANGED <<writer, pc, snapshot, pushed, deleted>>

(* push: the loop is over, drop(emails) releases the lock. *)
PushUnlock(t) ==
  /\ Len(emails) <= MaxMails
  /\ Goto(t, "evicting", "notifying")
  /\ writer' = NoTask
  /\ UNCHANGED <<emails, snapshot, pushed, deleted>>

(* clear: the guard is a temporary, dropped before notify.send. *)
Clear(t) ==
  /\ writer = NoTask
  /\ Goto(t, "idle", "notifying")
  /\ emails' = <<>>
  /\ deleted' = deleted \cup ToSet(emails)
  /\ UNCHANGED <<writer, snapshot, pushed>>

(* remove of a mail that is there; the answer is true. *)
RemoveFound(t, i) ==
  /\ writer = NoTask
  /\ i \in DOMAIN emails
  /\ Goto(t, "idle", "notifying")
  /\ emails' = RemoveAt(emails, i)
  /\ deleted' = deleted \cup {emails[i]}
  /\ UNCHANGED <<writer, snapshot, pushed>>

(* get_all: clone the Vec under the read lock.  get_by_id, query and       *)
(* get_attachment read the same Vec under the same lock; a remove of an    *)
(* absent id reads it too, returns false and tells nobody.                 *)
GetAll(t) ==
  /\ writer = NoTask
  /\ pc[t] = "idle"
  /\ snapshot' = [snapshot EXCEPT ![t] = emails]
  /\ UNCHANGED <<emails, writer, pc, pushed, deleted>>

(* `let _ = self.notify.send(())`, the last step of a call that changed    *)
(* the Vec.  What the channel does with it is in LiveUpdates.              *)
Notify(t) ==
  /\ Goto(t, "notifying", "idle")
  /\ UNCHANGED <<emails, writer, snapshot, pushed, deleted>>

(* The calls up to, and without, their notification. *)
StoreStep(t) ==
  \/ PushInsert(t)
  \/ PushEvict(t)
  \/ PushUnlock(t)
  \/ Clear(t)
  \/ \E i \in DOMAIN emails : RemoveFound(t, i)
  \/ GetAll(t)

Next == \E t \in Task : StoreStep(t) \/ Notify(t)

Spec == Init /\ [][Next]_storeVars
-----------------------------------------------------------------------------
TypeOK ==
  /\ emails \in Seq(1..pushed)
  /\ writer \in Task \cup {NoTask}
  /\ pc \in [Task -> Location]
  /\ snapshot \in [Task -> Seq(1..MaxPush)]
  /\ pushed \in 0..MaxPush
  /\ deleted \subseteq 1..pushed

(* The write lock is held by exactly the task that is in the eviction      *)
(* loop, and without it the Vec is within its capacity.                    *)
LockInv ==
  /\ \A t \in Task : pc[t] = "evicting" <=> writer = t
  /\ writer = NoTask => Len(emails) <= MaxMails

(* The Vec holds the mails in the order they arrived, each one once.       *)
InArrivalOrder ==
  \A i, j \in DOMAIN emails : i < j => emails[i] < emails[j]

(* Each mail of the Vec has at least as many later arrivals as it has      *)
(* mails behind it.                                                        *)
Dated == \A i \in DOMAIN emails : emails[i] + (Len(emails) - i) <= pushed

(***************************************************************************)
(* The inductive invariant of the Vec and its lock: store.rs:51-107 keeps  *)
(* the Vec sorted by arrival and hides it while it is too long.            *)
(***************************************************************************)
StoreInv == LockInv /\ InArrivalOrder /\ Dated

(***************************************************************************)
(* No reader ever gets more than MaxMails mails, although push makes the   *)
(* Vec longer than that before it trims it (store.rs:51-63).               *)
(***************************************************************************)
SnapshotBounded == \A t \in Task : Len(snapshot[t]) <= MaxMails

(***************************************************************************)
(* The ring buffer loses only its oldest mails: of two mails that nobody   *)
(* deleted, the store never has the older one without the newer.  Pushes   *)
(* and deletions of several tasks may be interleaved in any order.         *)
(***************************************************************************)
LosesOldestFirst ==
  \A new \in 1..pushed : \A old \in 1..(new - 1) :
    (old \in ToSet(emails) /\ new \notin deleted) => new \in ToSet(emails)

(***************************************************************************)
(* Room is made only for mails that need it: a mail that is gone without   *)
(* having been deleted was followed by at least MaxMails later arrivals.   *)
(***************************************************************************)
EvictsOnlyWhenFull ==
  \A m \in 1..pushed :
    m \notin ToSet(emails) \cup deleted => pushed - m >= MaxMails

(***************************************************************************)
(* The backend implements the trait's promise (store.rs:50-107): the mails *)
(* that count are the newest MaxMails of the Vec, a push takes effect when *)
(* it takes the lock, and no reader can tell the rounds of its loop.       *)
(***************************************************************************)
Retained == IF Len(emails) <= MaxMails
              THEN emails
              ELSE SubSeq(emails, Len(emails) - MaxMails + 1, Len(emails))

Storage == INSTANCE EmailStorage WITH
  mails <- Retained,
  Capacities <- {MaxMails},
  capacity <- MaxMails

ImplementsStorage == Storage!Spec
=============================================================================
