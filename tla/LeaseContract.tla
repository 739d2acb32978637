--------------------------- MODULE LeaseContract ---------------------------
(***************************************************************************)
(* What an agent is promised about cooperative pauses, whatever file keeps *)
(* them: docs/agent-api.md, "Cooperative pauses".  A lease ID is free, or  *)
(* taken until an expiry fixed when it was granted, or over.  It becomes   *)
(* free again only once its retention has passed, so that a late or        *)
(* repeated request finds out what became of the first one.                *)
(* Leases.tla implements this contract.                                    *)
(***************************************************************************)
EXTENDS Integers

CONSTANTS LeaseIds,   \* the UUIDs agents may use
          Durations,  \* the lease lengths the interface accepts
          Retention,  \* how long an ID outlives its lease: 24 hours
          NoTime      \* an absent instant

VARIABLES clock,      \* UTC
          lease       \* what each ID stands for

Free == [until |-> NoTime, stage |-> "free", keep |-> NoTime]

(* An ID whose retention has passed may be forgotten at any moment. *)
Forgettable(id) == lease[id].keep <= clock

(* A fresh ID is granted an expiry counted from the request, which may be  *)
(* older than the moment it is granted.                                    *)
Grant(id, next) ==
  /\ Forgettable(id)
  /\ \E at \in 0 .. clock, minutes \in Durations :
       next = [until |-> at + minutes, stage |-> "held",
               keep  |-> at + minutes + Retention]

(* Ending keeps the expiry and never shortens the retention. *)
End(id, next) ==
  /\ lease[id].stage = "held"
  /\ next.keep >= lease[id].keep
  /\ next = [until |-> lease[id].until, stage |-> "over", keep |-> next.keep]

(* An ID released before it was acquired is over from the start. *)
Cancel(id, next) ==
  /\ Forgettable(id)
  /\ \E at \in 0 .. clock :
       next = [until |-> NoTime, stage |-> "over", keep |-> at + Retention]

Move(id, next) == Grant(id, next) \/ End(id, next) \/ Cancel(id, next)

Init == clock = 0 /\ lease = [id \in LeaseIds |-> Free]

Tick == clock' > clock /\ UNCHANGED lease

(* One request moves at most one ID; every other is left as it is, or      *)
(* forgotten because its retention has passed.                             *)
Request ==
  /\ UNCHANGED clock
  /\ \E subject \in LeaseIds :
       /\ lease'[subject] = lease[subject] \/ Move(subject, lease'[subject])
       /\ \A id \in LeaseIds \ {subject} :
            \/ lease'[id] = lease[id]
            \/ Forgettable(id) /\ lease'[id] = Free

Next == Tick \/ Request

Spec == Init /\ [][Next]_<<clock, lease>>
=============================================================================
