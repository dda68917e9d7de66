----------------------------- MODULE ScimDirectory -----------------------------
(***************************************************************************)
(* The directory of provisioned users: one row per user name, its id a     *)
(* function of the name.  An operation reads the row in one statement and  *)
(* writes in a later one, from a store object of its own, so the requests  *)
(* of an identity provider run into each other between the two.            *)
(***************************************************************************)
EXTENDS Integers

CONSTANTS
  Feeds,   \* requests in flight at once
  Users,   \* user names
  Roles,   \* what a resource may ask for as role
  NoFeed   \* no request

VARIABLES
  users,   \* user name -> its row
  feed     \* request -> what it read and is about to write

scimVars == <<users, feed>>

Default(asked, otherwise) == IF asked = "unsaid" THEN otherwise ELSE asked

Flags == {"yes", "no", "unsaid"}

\* replace: what the resource does not say, the row that was read says.
Replacement(row, flag, role) ==
  [active |-> CASE flag = "yes" -> TRUE [] flag = "no" -> FALSE [] OTHER -> row.active,
   role   |-> Default(role, row.role)]

BeginFeed(f, op, user, row, flag) ==
  /\ feed[f] = NoFeed
  /\ feed' = [feed EXCEPT ![f] = [op |-> op, user |-> user, row |-> row, flag |-> flag]]
  /\ UNCHANGED users

CreateRead(f, user, flag, role) ==
  /\ user \notin DOMAIN users
  /\ BeginFeed(f, "insert", user,
           [active |-> flag # "no", role |-> Default(role, "auditor")], flag)

ReplaceRead(f, user, flag, role) ==
  /\ user \in DOMAIN users
  /\ BeginFeed(f, "update", user, Replacement(users[user], flag, role), flag)

DeactivateRead(f, user) ==
  /\ user \in DOMAIN users
  /\ BeginFeed(f, "deactivate", user, users[user], "no")

\* The INSERT of a second create meets the primary key and raises; the
\* UPDATE of set_active touches the flag only.
Commit(f) ==
  /\ feed[f] # NoFeed
  /\ LET u == feed[f].user IN
     users' = CASE feed[f].op = "insert" ->
                     [x \in DOMAIN users \cup {u} |-> IF x \in DOMAIN users THEN users[x]
                                                     ELSE feed[f].row]
                [] feed[f].op = "update"     -> [users EXCEPT ![u] = feed[f].row]
                [] feed[f].op = "deactivate" -> [users EXCEPT ![u].active = FALSE]
  /\ feed' = [feed EXCEPT ![f] = NoFeed]

FeedLost(f) ==
  /\ feed[f] # NoFeed
  /\ feed' = [feed EXCEPT ![f] = NoFeed]
  /\ UNCHANGED users

ScimInit ==
  /\ users = <<>>
  /\ feed = [f \in Feeds |-> NoFeed]

ScimNext ==
  \E f \in Feeds :
    \/ \E u \in Users, flag \in Flags, role \in Roles \cup {"unsaid"} :
         CreateRead(f, u, flag, role) \/ ReplaceRead(f, u, flag, role)
    \/ \E u \in Users : DeactivateRead(f, u)
    \/ Commit(f)
    \/ FeedLost(f)

ScimSpec == ScimInit /\ [][ScimNext]_scimVars

\* "when someone leaves, the IdP `DELETE`s (deactivates) them and they lose access
\* immediately" (scim.py:6-7): a user who was deactivated becomes active again
\* only by a request that asks for it, not by one that had read the row earlier.
DeprovisioningHolds ==
  [][\A u \in DOMAIN users : ~users[u].active /\ users'[u].active =>
       \E f \in Feeds : /\ feed[f] # NoFeed /\ feed'[f] = NoFeed
                        /\ feed[f].user = u /\ feed[f].flag = "yes"]_scimVars
================================================================================
