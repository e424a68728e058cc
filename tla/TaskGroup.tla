----------------------------- MODULE TaskGroup -----------------------------
(***************************************************************************)
(* Cancellation sources and task groups of std/parallel/task.spc.  A       *)
(* source lists the tasks bound to it; a cancel raises its flag and takes  *)
(* the list apart, a batch at a time, asking each task by its key outside  *)
(* the lock.  Tasks bind, end and start over in the same blocks meanwhile. *)
(*                                                                         *)
(* A critical section of a source's spin lock is one step.  The wait group *)
(* of a task group is its count: module WaitGroup says that who waits for  *)
(* zero sees it.  A request is delivered as in module Park; here it is     *)
(* the reason a task keeps.                                                *)
(***************************************************************************)
EXTENDS Integers, SequencesExt

CONSTANTS Blocks,      \* the coroutine blocks the children run in
          Others,      \* the cancellation sources beside the group's own
          Cancellers,  \* the threads that hold the other sources
          Own, Owner,  \* the group's source, and the task that owns the group
          Reasons, User, \* the CR_* reasons; a group cancels with CR_USER
          Batch,       \* CANCEL_BATCH
          MaxSpawn,    \* bound: the children ever spawned
          None

Sources == Others \cup {Own}
Callers == Cancellers \cup {Owner}

GroupAssumption ==
  /\ IsFiniteSet(Blocks) /\ Own \notin Others /\ Owner \notin Cancellers
  /\ User \in Reasons /\ None \notin Reasons \cup Sources
  /\ Batch \in Nat \ {0} /\ MaxSpawn \in Nat

VARIABLES
  reason,     \* of each source's first cancel; None is flag 0
  list,       \* each source's members: keys, oldest first
  refs,       \* who keeps a source's shared state: handles, tokens, records
  held,       \* the other sources whose handles are not dropped
  sweep,      \* a cancel in progress: [src, why, keys, more]
  life,       \* the generation of a block's key
  st,         \* where the task of a block is
  memb,       \* its records' sources, newest first
  linked,     \* the sources whose list its record is on (Member.linked)
  request,    \* cancel_reason; None when nothing is requested
  accepted,   \* the cancellation is accepted
  count,      \* the wait group's
  spawned, completed, cancelled,
  owner       \* where the owner is

sourceVars == <<reason, list, refs, held, sweep>>
taskVars == <<life, st, memb, linked, request, accepted>>
groupVars == <<count, spawned, completed, cancelled, owner>>
vars == <<sourceVars, taskVars, groupVars>>

\* free -> start -> body <-> asking -> ended -> counted -> hook <-> unlink -> free
States == {"free", "start", "body", "asking", "ended", "counted", "hook", "unlink"}

NoSweep == [src |-> None, why |-> None, keys |-> <<>>, more |-> FALSE]

Init ==
  /\ reason = [s \in Sources |-> None] /\ list = [s \in Sources |-> <<>>]
  /\ refs = [s \in Sources |-> 1] /\ held = Others
  /\ sweep = [c \in Callers |-> NoSweep]
  /\ life = [b \in Blocks |-> 0] /\ st = [b \in Blocks |-> "free"]
  /\ memb = [b \in Blocks |-> <<>>] /\ linked = [b \in Blocks |-> {}]
  /\ request = [b \in Blocks |-> None] /\ accepted = {}
  /\ count = 0 /\ spawned = 0 /\ completed = 0 /\ cancelled = 0
  /\ owner = "open"

Goto(b, l) == st' = [st EXCEPT ![b] = l]
Key(b) == <<b, life[b]>>

\* request_cancel: the first reason is kept; a key of a task that completed asks nobody.
Requested(key, why) ==
  LET b == key[1] IN
  request' = IF st[b] # "free" /\ life[b] = key[2] /\ request[b] = None
               THEN [request EXCEPT ![b] = why] ELSE request

-----------------------------------------------------------------------------
(* CancelSource::cancel *)

\* The first members of a list, unlinked under its lock.
Gather(c, s, why) ==
  LET n == IF Len(list[s]) < Batch THEN Len(list[s]) ELSE Batch
      keys == SubSeq(list[s], 1, n)
  IN  /\ list' = [list EXCEPT ![s] = SubSeq(@, n + 1, Len(@))]
      /\ linked' = [b \in Blocks |->
                     IF \E i \in 1 .. n : keys[i][1] = b THEN linked[b] \ {s} ELSE linked[b]]
      /\ sweep' = [sweep EXCEPT ![c] = [src |-> s, why |-> why, keys |-> keys, more |-> n = Batch]]

\* Only the first cancel of a source does anything.
Cancel(c, s, why) ==
  /\ sweep[c] = NoSweep /\ reason[s] = None
  /\ reason' = [reason EXCEPT ![s] = why]
  /\ Gather(c, s, why)
  /\ UNCHANGED <<refs, held, life, st, memb, request, accepted>>

CancelOther(c, s, why) ==
  /\ c \in Cancellers /\ s \in held
  /\ Cancel(c, s, why)
  /\ UNCHANGED groupVars

\* Outside the lock, one key after the other.
RequestNext(c) ==
  /\ sweep[c].keys # <<>>
  /\ Requested(Head(sweep[c].keys), sweep[c].why)
  /\ sweep' = [sweep EXCEPT ![c].keys = Tail(@)]
  /\ UNCHANGED <<reason, list, refs, held, life, st, memb, linked, accepted, groupVars>>

\* A full batch may not have been the last.
NextBatch(c) ==
  /\ sweep[c] # NoSweep /\ sweep[c].keys = <<>>
  /\ IF sweep[c].more THEN Gather(c, sweep[c].src, sweep[c].why)
     ELSE sweep' = [sweep EXCEPT ![c] = NoSweep] /\ UNCHANGED <<list, linked>>
  /\ UNCHANGED <<reason, refs, held, life, st, memb, request, accepted, groupVars>>

\* The last handle of another source goes: not during a call on it.
DropSource(s) ==
  /\ s \in held /\ \A c \in Callers : sweep[c].src # s
  /\ held' = held \ {s}
  /\ refs' = [refs EXCEPT ![s] = @ - 1]
  /\ UNCHANGED <<reason, list, sweep, taskVars, groupVars>>

-----------------------------------------------------------------------------
(* A child: child_entry, bind_current, its body *)

\* TaskGroup::spawn, with the block's next generation.
Spawn(b) ==
  /\ owner = "open" /\ sweep[Owner] = NoSweep
  /\ st[b] = "free" /\ spawned < MaxSpawn
  /\ count' = count + 1 /\ spawned' = spawned + 1
  /\ refs' = [refs EXCEPT ![Own] = @ + 1]
  /\ life' = [life EXCEPT ![b] = @ + 1]
  /\ request' = [request EXCEPT ![b] = None] /\ accepted' = accepted \ {b}
  /\ Goto(b, "start")
  /\ UNCHANGED <<reason, list, held, sweep, memb, linked, completed, cancelled, owner>>

\* Mutant of Joins: a task joins the list of a source that is already cancelled.
Joins_Always(s) == TRUE

\* Under the source's lock: a source that was cancelled keeps no list.
Joins(s) == reason[s] = None

\* bind_current: one record per source, made before the lock is taken.
Bind(b, s) ==
  /\ \/ st[b] = "start" /\ s = Own
     \/ st[b] = "body" /\ s \in held \cup {Own}
  /\ IF Contains(memb[b], s) THEN Goto(b, "body") /\ UNCHANGED <<list, refs, memb, linked>>
     ELSE /\ memb' = [memb EXCEPT ![b] = <<s>> \o @]
          /\ refs' = [refs EXCEPT ![s] = @ + 1]
          /\ IF Joins(s)
               THEN /\ list' = [list EXCEPT ![s] = Append(@, Key(b))]
                    /\ linked' = [linked EXCEPT ![b] = @ \cup {s}]
                    /\ Goto(b, "body")
               ELSE Goto(b, "asking") /\ UNCHANGED <<list, linked>>
  /\ UNCHANGED <<reason, held, sweep, life, request, accepted, groupVars>>

\* The task asks itself, with the reason of the source it just bound.
AskSelf(b) ==
  /\ st[b] = "asking"
  /\ Requested(Key(b), reason[Head(memb[b])])
  /\ Goto(b, "body")
  /\ UNCHANGED <<sourceVars, life, memb, linked, accepted, groupVars>>

\* A cancellation point.
Accept(b) ==
  /\ st[b] = "body" /\ request[b] # None
  /\ accepted' = accepted \cup {b}
  /\ UNCHANGED <<sourceVars, life, st, memb, linked, request, groupVars>>

\* The body returns, or unwinds.
End(b) ==
  /\ st[b] = "body"
  /\ Goto(b, "ended")
  /\ UNCHANGED <<sourceVars, life, memb, linked, request, accepted, groupVars>>

-----------------------------------------------------------------------------
(* group_finish, then the runtime's hook *)

Count(b) ==
  /\ st[b] = "ended"
  /\ IF b \in accepted THEN cancelled' = cancelled + 1 /\ UNCHANGED completed
     ELSE completed' = completed + 1 /\ UNCHANGED cancelled
  /\ Goto(b, "counted")
  /\ UNCHANGED <<sourceVars, life, memb, linked, request, accepted, count, spawned, owner>>

\* w.done(), and the child's token goes.
Done(b) ==
  /\ st[b] = "counted"
  /\ count' = count - 1
  /\ refs' = [refs EXCEPT ![Own] = @ - 1]
  /\ Goto(b, "hook")
  /\ UNCHANGED <<reason, list, held, sweep, life, memb, linked, request, accepted,
                 spawned, completed, cancelled, owner>>

\* The newest record and its reference go.
DropRecord(b) ==
  /\ memb' = [memb EXCEPT ![b] = Tail(@)]
  /\ refs' = [refs EXCEPT ![Head(memb[b])] = @ - 1]

\* membership_release: a record that a sweep took off its list needs no lock.
Release(b) ==
  /\ st[b] = "hook" /\ memb[b] # <<>>
  /\ IF Head(memb[b]) \in linked[b] THEN Goto(b, "unlink") /\ UNCHANGED <<memb, refs>>
     ELSE DropRecord(b) /\ UNCHANGED st
  /\ UNCHANGED <<reason, list, held, sweep, life, linked, request, accepted, groupVars>>

\* unlink_locked: the one entry that is the record's.
Without(q, k) == RemoveAt(q, CHOOSE i \in DOMAIN q : q[i] = k)

\* Under the lock, after another look: the sweep may have been faster.
Unlink(b) ==
  /\ st[b] = "unlink"
  /\ LET s == Head(memb[b]) IN
       /\ list' = IF s \in linked[b] THEN [list EXCEPT ![s] = Without(@, Key(b))] ELSE list
       /\ linked' = [linked EXCEPT ![b] = @ \ {s}]
  /\ DropRecord(b)
  /\ Goto(b, "hook")
  /\ UNCHANGED <<reason, held, sweep, life, request, accepted, groupVars>>

Complete(b) ==
  /\ st[b] = "hook" /\ memb[b] = <<>>
  /\ Goto(b, "free")
  /\ UNCHANGED <<sourceVars, life, memb, linked, request, accepted, groupVars>>

-----------------------------------------------------------------------------
(* The owner: cancel, join, free *)

CancelGroup ==
  /\ owner = "open"
  /\ Cancel(Owner, Own, User)
  /\ UNCHANGED groupVars

\* wait returns at zero, or because the owner's task was cancelled.
Join(cut) ==
  /\ owner = "open" /\ sweep[Owner] = NoSweep
  /\ cut \/ count = 0
  /\ owner' = IF cut THEN "reported" ELSE "joined"
  /\ UNCHANGED <<sourceVars, taskVars, count, spawned, completed, cancelled>>

\* The report was read; who was not cancelled may go on.
Reported ==
  /\ owner = "joined"
  /\ owner' = "open"
  /\ UNCHANGED <<sourceVars, taskVars, count, spawned, completed, cancelled>>

\* free: cancel, then a wait that no cancellation ends.
Free ==
  /\ owner \in {"open", "reported"} /\ sweep[Owner] = NoSweep
  /\ owner' = "dropping"
  /\ IF reason[Own] = None THEN Cancel(Owner, Own, User) ELSE UNCHANGED <<sourceVars, taskVars>>
  /\ UNCHANGED <<count, spawned, completed, cancelled>>

Freed ==
  /\ owner = "dropping" /\ sweep[Owner] = NoSweep /\ count = 0
  /\ owner' = "gone"
  /\ refs' = [refs EXCEPT ![Own] = @ - 1]
  /\ UNCHANGED <<reason, list, held, sweep, taskVars, count, spawned, completed, cancelled>>

Next ==
  \/ \E c \in Callers : RequestNext(c) \/ NextBatch(c)
  \/ \E c \in Cancellers, s \in Others, why \in Reasons : CancelOther(c, s, why)
  \/ \E s \in Others : DropSource(s)
  \/ \E b \in Blocks :
       \/ Spawn(b) \/ AskSelf(b) \/ Accept(b) \/ End(b) \/ Count(b) \/ Done(b)
       \/ Release(b) \/ Unlink(b) \/ Complete(b)
       \/ \E s \in Sources : Bind(b, s)
  \/ CancelGroup \/ \E cut \in BOOLEAN : Join(cut) \/ Reported \/ Free \/ Freed

Spec == Init /\ [][Next]_vars

-----------------------------------------------------------------------------
(* Properties *)

InBody == {b \in Blocks : st[b] \in {"body", "ended", "counted"}}

\* A cancel reaches every member, whether it was bound before, during or after it, and asks
\* nobody else: not the next task of a member's block.
MembersReached ==
  \A b \in InBody :
    /\ \A s \in ToSet(memb[b]) :
         reason[s] # None /\ (\A c \in Callers : sweep[c].src # s) => request[b] # None
    /\ request[b] # None => \E s \in ToSet(memb[b]) : reason[s] = request[b]

\* A source lists its living members, once, under their present keys; the records agree.
ListsTrue ==
  \A s \in Sources :
    /\ IsInjective(list[s])
    /\ ToSet(list[s]) = {Key(b) : b \in {x \in Blocks : s \in linked[x]}}
    /\ \A b \in Blocks : linked[b] \subseteq ToSet(memb[b])

\* The shared state is there for whoever still reaches it, and goes with the last.
SharedAlive ==
  \A s \in Sources : refs[s] =
    (IF s \in held \/ (s = Own /\ owner # "gone") THEN 1 ELSE 0)
      + Cardinality({b \in Blocks : Contains(memb[b], s)})
      + (IF s = Own THEN Cardinality({b \in Blocks : st[b] \notin {"free", "hook", "unlink"}})
         ELSE 0)

\* A join that was not cut short has every child in one column of its report.
ReportAddsUp ==
  /\ completed + cancelled <= spawned
  /\ owner = "joined" => completed + cancelled = spawned

\* Children cannot outlive their group.
NobodyOutlives == owner = "gone" => InBody \cup {b \in Blocks : st[b] = "start"} = {}

GroupKept == MembersReached /\ ListsTrue /\ SharedAlive /\ ReportAddsUp /\ NobodyOutlives
=============================================================================
