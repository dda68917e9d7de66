------------------------------- MODULE LegalHold -------------------------------
(***************************************************************************)
(* Legal holds on retained evidence, and the retention posture an auditor  *)
(* reads of an object.  The registry is one file that every operation      *)
(* loads and writes back whole, from a store object of its own, so that    *)
(* other requests run between the load and the save.  The evidence store   *)
(* only grows.  Writing the file is AtomicWrite's concern: a save is one   *)
(* step here, and may not happen.                                          *)
(***************************************************************************)
EXTENDS Integers

CONSTANTS
  Clerks,     \* requests in flight at once
  Objects,    \* content addresses
  Retention,  \* policy_days
  MaxDay,     \* bound on the clock
  NoCopy        \* no file, no answer

ASSUME HoldAssumption == Retention \in Nat /\ MaxDay \in Nat

VARIABLES
  holds,      \* content address -> hold record, the file
  copy,       \* clerk -> the file it is about to write, and for which object
  collected,  \* object -> day of its collection, for those retained
  day,        \* the clock
  answer,     \* the last answer of get_evidence
  inForce     \* history: objects whose hold a clerk was told is placed, and
              \* whose release nobody has asked for since

holdVars == <<holds, copy, collected, day, answer, inForce>>

With(object, record) ==
  [o \in DOMAIN holds \cup {object} |-> IF o = object THEN record ELSE holds[o]]

Active(file, object) == object \in DOMAIN file /\ file[object].active

\* place_legal_hold: a reason, an object that exists, then load.
MayPlace(object, reason) == object \in DOMAIN collected /\ reason # ""

\* The file as it will be, with one record changed
Draft(object, record) == [object |-> object, file |-> With(object, record)]

LoadToPlace(c, object, reason) ==
  /\ copy[c] = NoCopy
  /\ MayPlace(object, reason)
  /\ copy' = [copy EXCEPT ![c] = Draft(object, [active |-> TRUE, reason |-> reason])]
  /\ UNCHANGED <<holds, collected, day, answer, inForce>>

LoadToRelease(c, object) ==
  /\ copy[c] = NoCopy
  /\ Active(holds, object)
  /\ copy' = [copy EXCEPT ![c] = Draft(object, [holds[object] EXCEPT !.active = FALSE])]
  /\ inForce' = inForce \ {object}
  /\ UNCHANGED <<holds, collected, day, answer>>

Save(c) ==
  /\ copy[c] # NoCopy
  /\ holds' = copy[c].file
  /\ copy' = [copy EXCEPT ![c] = NoCopy]
  /\ LET o == copy[c].object IN
     inForce' = IF Active(copy[c].file, o) THEN inForce \cup {o} ELSE inForce \ {o}
  /\ UNCHANGED <<collected, day, answer>>

ClerkLost(c) ==
  /\ copy[c] # NoCopy
  /\ copy' = [copy EXCEPT ![c] = NoCopy]
  /\ UNCHANGED <<holds, collected, day, answer, inForce>>

\* retention_for: an object expires the day AFTER its window.
PastRetention(object) == day > collected[object] + Retention

\* get_evidence of an object that is retained.
View(object) ==
  /\ object \in DOMAIN collected
  /\ LET held == Active(holds, object) IN
     answer' = [object |-> object, held |-> held, on |-> day,
                expired |-> PastRetention(object) /\ ~held]
  /\ UNCHANGED <<holds, copy, collected, day, inForce>>

Collect(object) ==
  /\ object \notin DOMAIN collected
  /\ collected' = [o \in DOMAIN collected \cup {object} |-> IF o = object THEN day ELSE collected[o]]
  /\ UNCHANGED <<holds, copy, day, answer, inForce>>

NextDay ==
  /\ day < MaxDay
  /\ day' = day + 1
  /\ UNCHANGED <<holds, copy, collected, answer, inForce>>

HoldInit ==
  /\ holds = <<>> /\ collected = <<>>
  /\ copy = [c \in Clerks |-> NoCopy]
  /\ day = 0 /\ answer = NoCopy /\ inForce = {}

HoldNext ==
  \/ \E c \in Clerks, o \in Objects, reason \in {"", "litigation"} :
       LoadToPlace(c, o, reason)
  \/ \E c \in Clerks, o \in Objects : LoadToRelease(c, o)
  \/ \E c \in Clerks : Save(c) \/ ClerkLost(c)
  \/ \E o \in Objects : View(o) \/ Collect(o)
  \/ NextDay

HoldSpec == HoldInit /\ [][HoldNext]_holdVars

\* "evidence under hold is never past-retention and must not be purged"
\* (legal_hold.py:11-12): get_evidence never calls an object expired whose hold was
\* placed and has not been released, whatever other holds were placed meanwhile.
HeldIsNotExpired ==
  [][answer' # answer /\ answer'.object \in inForce => ~answer'.expired]_holdVars
================================================================================
