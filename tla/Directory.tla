----------------------------- MODULE Directory -----------------------------
(***************************************************************************)
(* The tables of users, groups and labels: the queries that resolve an     *)
(* audience, and the seeder that fills the tables with demo users and      *)
(* restores them when it is run again.                                     *)
(*                                                                         *)
(* A user is the sequence number of a demo profile, in the place of the    *)
(* e-mail address and the id made from it.  The query for labels joins the *)
(* label rows of a user with the pairs asked for and compares the number   *)
(* of distinct keys found with the number of pairs.                        *)
(***************************************************************************)
EXTENDS Integers, FiniteSets

CONSTANTS
    TotalUsers,   \* demo_seed_user_count
    Selections,   \* audience selections of notifications
    MaxEdits      \* bound on edits by an operator

VARIABLES
    groups,       \* names of groups
    users,        \* users that exist
    active,       \* users with active = true
    userLabels,   \* rows of user_labels: <<user, key, value>>
    memberships,  \* rows of user_groups: <<user, group>>
    edits,
    seeded        \* history: nothing was edited since the tables were seeded

Profiles == 1 .. TotalUsers

directoryVars == <<groups, users, active, userLabels, memberships, edits, seeded>>

-----------------------------------------------------------------------------
(* Audiences *)

\* An audience: all users, those of a group, or those with all the labels.
IsSelection(s) ==
    \/ s.type = "all"
    \/ s.type = "group"
    \/ /\ s.type = "labels"
       /\ IsFiniteSet(s.labels)
       /\ s.labels # {}
       /\ \A p \in s.labels : p = <<p[1], p[2]>>
       /\ \A a, b \in s.labels : a[1] = b[1] => a = b   \* keys of a dictionary

ASSUME DirectoryAssumption ==
    /\ TotalUsers \in Nat
    /\ \A s \in Selections : IsSelection(s)
    /\ MaxEdits \in Nat

ListActive == active

ListActiveByGroup(g) == {u \in active : g \in groups /\ <<u, g>> \in memberships}

\* The distinct keys of the user's label rows that match one of the pairs.
MatchedKeys(u, pairs) ==
    {row[2] : row \in {r \in userLabels : r[1] = u /\ <<r[2], r[3]>> \in pairs}}

\* Mutation of HasLabels: one matching label is enough.
HasLabelsAny(u, pairs) == MatchedKeys(u, pairs) # {}

HasLabels(u, pairs) == Cardinality(MatchedKeys(u, pairs)) = Cardinality(pairs)

ListActiveByLabels(pairs) ==
    IF pairs = {} THEN {} ELSE {u \in active : HasLabels(u, pairs)}

Resolve(s) ==
    IF s.type = "all" THEN ListActive
    ELSE IF s.type = "group" THEN ListActiveByGroup(s.group)
    ELSE ListActiveByLabels(s.labels)

-----------------------------------------------------------------------------
(* The demo seeder *)

GroupNames == {"Administrators", "Support", "Billing"}
Keys == {"region", "tier"}

GroupName(n) ==
    IF n % 25 = 0 THEN "Administrators" ELSE IF n % 3 = 0 THEN "Billing" ELSE "Support"

ProfileLabel(n, key) ==
    IF key = "region" THEN <<"EU", "US", "APAC">>[((n - 1) % 3) + 1]
                      ELSE <<"free", "pro", "enterprise">>[((n - 1) % 3) + 1]

\* labels_by_user_key: the pairs of user and key that have a row.
LabelsByUserKey == {<<r[1], r[2]>> : r \in userLabels}

\* Rows for the pairs that have none.
InsertedLabels ==
    {<<p[1], p[2], ProfileLabel(p[1], p[2])>> : p \in (Profiles \X Keys) \ LabelsByUserKey}

\* Mutation of EnsuredValue: a row that is there is passed over.
EnsuredValueKept(row) == row[3]

\* A row that is there takes its profile's value.
EnsuredValue(row) ==
    IF row[1] \in Profiles /\ row[2] \in Keys THEN ProfileLabel(row[1], row[2]) ELSE row[3]

EnsuredLabels == {<<r[1], r[2], EnsuredValue(r)>> : r \in userLabels} \cup InsertedLabels

\* uq_user_labels_user_key: new rows must not repeat a pair of user and key.
UniqueWith(new) == \A p \in new, r \in userLabels : <<p[1], p[2]>> # <<r[1], r[2]>>

EnsuredMemberships == memberships \cup {<<n, GroupName(n)>> : n \in Profiles}

\* One transaction for all the profiles; a violated constraint would roll all of
\* it back.
Seed ==
    /\ UniqueWith(InsertedLabels)
    /\ groups' = groups \cup GroupNames
    /\ users' = users \cup Profiles
    /\ active' = active \cup Profiles
    /\ userLabels' = EnsuredLabels
    /\ memberships' = EnsuredMemberships
    /\ seeded' = TRUE
    /\ UNCHANGED edits

DirectoryInit ==
    /\ groups = {}
    /\ users = {}
    /\ active = {}
    /\ userLabels = {}
    /\ memberships = {}
    /\ edits = 0
    /\ seeded = FALSE

\* Rows edited in the database by hand, no code does it: a user is deactivated,
\* a label changed or deleted, a membership added or deleted.
Edit ==
    /\ edits < MaxEdits
    /\ edits' = edits + 1
    /\ seeded' = FALSE
    /\ \/ \E u \in active : active' = active \ {u} /\ UNCHANGED <<userLabels, memberships>>
       \/ \E r \in userLabels, n \in Profiles :
            /\ userLabels' \in {userLabels \ {r},
                    (userLabels \ {r}) \cup {<<r[1], r[2], ProfileLabel(n, r[2])>>}}
            /\ userLabels' # userLabels
            /\ UNCHANGED <<active, memberships>>
       \/ \E u \in users, g \in groups :
            /\ memberships' \in {memberships \cup {<<u, g>>}, memberships \ {<<u, g>>}}
            /\ memberships' # memberships
            /\ UNCHANGED <<active, userLabels>>
    /\ UNCHANGED <<groups, users>>

-----------------------------------------------------------------------------
(* Properties *)

\* What uq_user_labels_user_key enforces.
LabelsUnique == \A a, b \in userLabels : a[1] = b[1] /\ a[2] = b[2] => a = b

\* The users a selection means: the reference for the queries.
Meant(s) ==
    {u \in users :
        /\ u \in active
        /\ CASE s.type = "all" -> TRUE
             [] s.type = "group" -> <<u, s.group>> \in memberships
             [] s.type = "labels" ->
                    \A p \in s.labels : <<u, p[1], p[2]>> \in userLabels}

\* A query returns the users the selection means, whatever was seeded again and
\* edited in between: a count of keys stands for "has all the labels".
AudienceExact == \A s \in Selections : Resolve(s) = Meant(s)

\* The users a selection means by their profiles.
Profiled(s) ==
    CASE s.type = "all" -> Profiles
      [] s.type = "group" -> {n \in Profiles : GroupName(n) = s.group}
      [] s.type = "labels" ->
            {n \in Profiles :
                \A p \in s.labels : p[1] \in Keys /\ p[2] = ProfileLabel(n, p[1])}

\* Seeding again restores the audiences: whatever was edited since, each
\* selection finds the users whose profiles it means.  It finds no others, except
\* that members added to a group by hand stay in it.
SeedingRestores ==
    seeded => \A s \in Selections :
        /\ Profiled(s) \subseteq Resolve(s)
        /\ s.type # "group" => Resolve(s) = Profiled(s)
=============================================================================
