--------------------------- MODULE Oversight_proofs ---------------------------
(***************************************************************************)
(* The services of Oversight one by one, for any values of the constants:  *)
(* an inductive invariant of each, the lemmas about its operators and its  *)
(* steps, and a lemma *Always that the invariant holds at first, that      *)
(* every step of the service keeps it and that it implies what the service *)
(* promises.  Services_proofs takes them to the specification of           *)
(* MCServices.                                                             *)
(***************************************************************************)
EXTENDS Oversight, FiniteSetTheorems, WellFoundedInduction, TLAPS

(* Ids carry their type in OpenFGA; owners are names a subject may have.   *)
WellNamed ==
  /\ Tenants \cap Units = {}
  /\ Control!Nobody \notin Subjects \cup Tenants \cup Units
  /\ Owners \subseteq SUBSET Control!Names

IsAdmin(s) == s \in Subjects /\ Control!HasRole(s, "platform-admin")

OfTenant(x)  == \E s \in Subjects, t \in Tenants :
                  x = <<s, "admin", t>> /\ tenant[t] # Control!Nobody /\ IsAdmin(s)
OfUnit(x)    == \E s \in Subjects, u \in Units :
                  x = <<s, "admin", u>> /\ unit[u] # Control!NoUnit /\ IsAdmin(s)
Parent(x)    == \E t \in Tenants, u \in Units :
                  x = <<t, "tenant", u>> /\ unit[u] # Control!NoUnit
Workplace(x) == \E u \in Units, w \in Spaces :
                  x = <<u, "business_unit", w>> /\ space[w] # Control!NoSpace
Ownership(x) == \E o, w : w \in Spaces /\ x = <<o, "owner", w>>
                          /\ space[w] # Control!NoSpace /\ Control!Named(o, w)

Justified(x) == OfTenant(x) \/ OfUnit(x) \/ Parent(x) \/ Workplace(x) \/ Ownership(x)

Rows ==
  /\ tenant \in [Tenants -> Subjects \cup {Control!Nobody}]
  /\ unit \in [Units -> [of : Tenants \cup {Control!Nobody}, by : Subjects \cup {Control!Nobody}]]
  /\ space \in [Spaces -> [of : Units \cup {Control!Nobody}, owners : SUBSET Control!Names,
                           by : Subjects \cup {Control!Nobody}, archived : BOOLEAN]]
  /\ ownedOnce \in [Spaces -> SUBSET Control!Names]

Placed ==
  \A w \in Spaces : space[w] # Control!NoSpace =>
    space[w].owners # {} /\ space[w].of \in Units /\ unit[space[w].of] # Control!NoUnit

Allowed ==
  /\ changed.op \in {"update", "archive", "connect"} =>
       Control!Named(changed.by, changed.space) \/ Control!HasRole(changed.by, "platform-admin")
  /\ changed.op = "create" =>
       Control!HasRole(changed.by, "tenant-admin") \/ Control!HasRole(changed.by, "platform-admin")

TuplesJustified == \A x \in tuples \cup writing : Justified(x)

JInv == Rows /\ tuples \cap writing = {} /\ Placed /\ TuplesJustified /\ Allowed

-----------------------------------------------------------------------------
(* What tuples allow                                                       *)

(* Who may administer a unit may do so as a platform administrator only.   *)
LEMMA AdminsOfUnits ==
  ASSUME WellNamed, JInv, NEW s \in Subjects, NEW u \in Units, Control!AdminOfUnit(s, u)
  PROVE  unit[u] # Control!NoUnit /\ Control!HasRole(s, "platform-admin")
<1>1. CASE <<s, "admin", u>> \in tuples
  <2>1. Justified(<<s, "admin", u>>)
    BY <1>1 DEF JInv, TuplesJustified
  <2> QED
    BY <2>1
    DEF Justified, OfTenant, OfUnit, Parent, Workplace, Ownership, IsAdmin, WellNamed
<1>2. ASSUME NEW t \in Tenants, <<t, "tenant", u>> \in tuples, Control!AdminOfTenant(s, t)
      PROVE  unit[u] # Control!NoUnit /\ Control!HasRole(s, "platform-admin")
  <2>1. Justified(<<t, "tenant", u>>) /\ Justified(<<s, "admin", t>>)
    BY <1>2 DEF JInv, TuplesJustified, Control!AdminOfTenant
  <2>2. unit[u] # Control!NoUnit
    BY <2>1 DEF Justified, OfTenant, OfUnit, Parent, Workplace, Ownership
  <2>3. Control!HasRole(s, "platform-admin")
    BY <2>1 DEF Justified, OfTenant, OfUnit, Parent, Workplace, Ownership, IsAdmin
  <2> QED BY <2>2, <2>3
<1> QED BY <1>1, <1>2 DEF Control!AdminOfUnit

(* Who may administer a workspace is named among its owners.               *)
LEMMA OwnersOfSpaces ==
  ASSUME JInv, NEW s \in Subjects, NEW w \in Spaces, Control!CanAdmin(s, w)
  PROVE  space[w] # Control!NoSpace /\ Control!Named(s, w)
<1>1. Justified(<<s, "owner", w>>)
  BY DEF JInv, TuplesJustified, Control!CanAdmin
<1>2. Ownership(<<s, "owner", w>>)
  BY <1>1 DEF Justified, OfTenant, OfUnit, Parent, Workplace
<1> QED BY <1>2 DEF Ownership

(* What the invariant says of access.                                      *)
LEMMA JInvSound ==
  ASSUME WellNamed, JInv
  PROVE  Control!AccessSound
<1>1. \A w \in Spaces : space[w] # Control!NoSpace => space[w].owners # {} /\ unit[space[w].of] # Control!NoUnit
  BY DEF JInv, Placed
<1>2. ASSUME NEW s \in Subjects, NEW w \in Control!Reads(s)
      PROVE  Control!Named(s, w) \/ Control!HasRole(s, "platform-admin")
  BY <1>2, AdminsOfUnits, OwnersOfSpaces DEF Control!Reads, Control!CanView
<1> QED
  BY <1>1, <1>2, AdminsOfUnits, OwnersOfSpaces DEF Control!AccessSound, JInv, Allowed

-----------------------------------------------------------------------------
(* Steps                                                                   *)

(* Rows are never taken away, and what a creation named stays.             *)
RowsStay ==
  /\ \A t \in Tenants : tenant[t] # Control!Nobody => tenant'[t] # Control!Nobody
  /\ \A u \in Units : unit[u] # Control!NoUnit => unit'[u] # Control!NoUnit
  /\ \A w \in Spaces : space[w] # Control!NoSpace =>
       /\ space'[w] # Control!NoSpace /\ space'[w].by = space[w].by
       /\ ownedOnce'[w] = ownedOnce[w]

(* What justifies a tuple stays true while rows only grow.                 *)
LEMMA JustifiedStays ==
  ASSUME RowsStay, NEW x, Justified(x)
  PROVE  Justified(x)'
<1>1. CASE OfTenant(x)
  BY <1>1 DEF RowsStay, OfTenant, Justified, IsAdmin, Control!HasRole
<1>2. CASE OfUnit(x)
  BY <1>2 DEF RowsStay, OfUnit, Justified, IsAdmin, Control!HasRole
<1>3. CASE Parent(x)
  BY <1>3 DEF RowsStay, Parent, Justified
<1>4. CASE Workplace(x)
  BY <1>4 DEF RowsStay, Workplace, Justified
<1>5. CASE Ownership(x)
  BY <1>5 DEF RowsStay, Ownership, Justified, Control!Named
<1> QED BY <1>1, <1>2, <1>3, <1>4, <1>5 DEF Justified

(* A background write adds a tuple that was justified when it was queued.  *)
LEMMA WriteStep ==
  ASSUME JInv, NEW x \in writing, Control!Write(x)
  PROVE  JInv'
<1>1. /\ tuples' \subseteq tuples \cup writing /\ writing' \subseteq writing
      /\ tuples' \cap writing' = {}
  BY DEF Control!Write, JInv
<1>2. UNCHANGED <<tenant, unit, space, ownedOnce>> /\ changed'.op = "none"
  BY DEF Control!Write, Control!Nothing
<1>3. RowsStay
  BY <1>2 DEF RowsStay
<1>4. TuplesJustified'
  BY <1>1, <1>3, JustifiedStays DEF JInv, TuplesJustified
<1> QED BY <1>1, <1>2, <1>4 DEF JInv, Rows, Placed, Allowed

(* Creating a tenant queues a tuple its row justifies.                     *)
LEMMA TenantStep ==
  ASSUME WellNamed, JInv, NEW s \in Subjects, NEW t \in Tenants, Control!CreateTenant(s, t)
  PROVE  JInv'
<1> DEFINE x == <<s, "admin", t>>
<1>1. /\ tenant[t] = Control!Nobody /\ Control!HasRole(s, "platform-admin")
      /\ tenant' = [tenant EXCEPT ![t] = s]
      /\ writing' = writing \cup {x} /\ changed'.op = "none"
      /\ UNCHANGED <<unit, space, tuples, ownedOnce>>
  BY DEF Control!CreateTenant, Control!Nothing
<1>2. Rows' /\ Placed' /\ Allowed'
  BY <1>1 DEF JInv, Rows, Placed, Allowed
<1>3. RowsStay /\ tenant'[t] # Control!Nobody
  BY <1>1 DEF RowsStay, JInv, Rows, WellNamed
<1>4. x \notin tuples
  BY <1>1
  DEF JInv, TuplesJustified, Justified, OfTenant, OfUnit, Parent, Workplace,
      Ownership, WellNamed
<1>5. Justified(x)'
  BY <1>1, <1>3 DEF Justified, OfTenant, IsAdmin, Control!HasRole
<1>6. TuplesJustified'
  BY <1>1, <1>3, <1>5, JustifiedStays DEF JInv, TuplesJustified
<1> QED BY <1>1, <1>2, <1>4, <1>6 DEF JInv

(* The same of creating a business unit.                                   *)
LEMMA UnitStep ==
  ASSUME WellNamed, JInv, NEW s \in Subjects, NEW t \in Tenants, NEW u \in Units,
         Control!CreateBU(s, t, u)
  PROVE  JInv'
<1> DEFINE x == <<t, "tenant", u>>
           y == <<s, "admin", u>>
<1>1. /\ unit[u] = Control!NoUnit /\ Control!AdminOfTenant(s, t)
      /\ unit' = [unit EXCEPT ![u] = [of |-> t, by |-> s]]
      /\ writing' = writing \cup {x, y} /\ changed'.op = "none"
      /\ UNCHANGED <<tenant, space, tuples, ownedOnce>>
  BY DEF Control!CreateBU, Control!MayCreateBU, Control!Nothing
<1>2. [of |-> t, by |-> s] # Control!NoUnit
  <2>1. [of |-> t, by |-> s].of # Control!NoUnit.of
    BY DEF Control!NoUnit, WellNamed
  <2> QED BY <2>1
<1>3. Rows' /\ Placed' /\ Allowed'
  BY <1>1, <1>2 DEF JInv, Rows, Placed, Allowed
<1>4. RowsStay /\ unit'[u] # Control!NoUnit
  BY <1>1, <1>2 DEF RowsStay, JInv, Rows
<1>5. IsAdmin(s)
  BY <1>1
  DEF JInv, TuplesJustified, Justified, OfTenant, OfUnit, Parent, Workplace,
      Ownership, Control!AdminOfTenant, IsAdmin
<1>6. x \notin tuples /\ y \notin tuples
  BY <1>1
  DEF JInv, TuplesJustified, Justified, OfTenant, OfUnit, Parent, Workplace,
      Ownership, WellNamed
<1>7. Justified(x)' /\ Justified(y)'
  BY <1>4, <1>5 DEF Justified, OfUnit, Parent, IsAdmin, Control!HasRole
<1>8. TuplesJustified'
  BY <1>1, <1>4, <1>7, JustifiedStays DEF JInv, TuplesJustified
<1> QED BY <1>1, <1>3, <1>6, <1>8 DEF JInv

(* The same of creating a workspace with its owners.                       *)
LEMMA SpaceStep ==
  ASSUME WellNamed, JInv, NEW s \in Subjects, NEW u \in Units, NEW w \in Spaces,
         NEW owners \in Owners, Control!CreateWorkspace(s, u, w, owners)
  PROVE  JInv'
<1> DEFINE row == [of |-> u, owners |-> owners, by |-> s, archived |-> FALSE]
           added == {<<u, "business_unit", w>>}
                      \cup {<<o, "owner", w>> : o \in Control!OwnersOf(s, owners)}
<1>1. /\ space[w] = Control!NoSpace /\ unit[u] # Control!NoUnit /\ owners # {}
      /\ Control!AdminOfUnit(s, u) \/ Control!HasRole(s, "tenant-admin") \/ Control!HasRole(s, "platform-admin")
      /\ space' = [space EXCEPT ![w] = row]
      /\ writing' = writing \cup added
      /\ ownedOnce' = [ownedOnce EXCEPT ![w] = owners]
      /\ changed' = [op |-> "create", space |-> w, by |-> s]
      /\ UNCHANGED <<tenant, unit, tuples>>
  BY DEF Control!CreateWorkspace
<1>2. row # Control!NoSpace
  <2>1. row.owners # Control!NoSpace.owners
    BY <1>1 DEF Control!NoSpace
  <2> QED BY <2>1
<1>3. owners \in SUBSET Control!Names
  BY DEF WellNamed
<1>4. Rows'
  BY <1>1, <1>3 DEF JInv, Rows
<1>5. space'[w] = row /\ ownedOnce'[w] = owners
  BY <1>1 DEF JInv, Rows
<1>6. Placed'
  <2> SUFFICES ASSUME NEW v \in Spaces, space'[v] # Control!NoSpace
               PROVE  /\ space'[v].owners # {} /\ space'[v].of \in Units
                      /\ unit'[space'[v].of] # Control!NoUnit
    BY DEF Placed
  <2>1. CASE v = w
    BY <1>1, <1>5, <2>1
  <2>2. CASE v # w
    BY <1>1, <2>2 DEF JInv, Rows, Placed
  <2> QED BY <2>1, <2>2
<1>7. RowsStay
  BY <1>1 DEF RowsStay, JInv, Rows
<1>8. Allowed'
  BY <1>1, AdminsOfUnits DEF Allowed, Control!HasRole
<1>9. \A x \in added : x \notin tuples
  BY <1>1
  DEF JInv, TuplesJustified, Justified, OfTenant, OfUnit, Parent, Workplace,
      Ownership
<1>10. \A x \in added : Justified(x)'
  <2>1. Workplace(<<u, "business_unit", w>>)'
    BY <1>2, <1>5 DEF Workplace
  <2>2. ASSUME NEW o \in Control!OwnersOf(s, owners) PROVE Ownership(<<o, "owner", w>>)'
    <3>1. Control!Named(o, w)'
      <4>1. space'[w].by = s /\ ownedOnce'[w] = owners
        BY <1>5
      <4>2. o \in owners \/ (o = s /\ Username[s] \in owners)
        BY DEF Control!OwnersOf
      <4> QED BY <4>1, <4>2 DEF Control!Named
    <3> QED BY <1>2, <1>5, <3>1 DEF Ownership
  <2> QED BY <2>1, <2>2 DEF Justified
<1> HIDE DEF added
<1>11. TuplesJustified'
  BY <1>1, <1>7, <1>10, JustifiedStays DEF JInv, TuplesJustified
<1>12. tuples' \cap writing' = {}
  BY <1>1, <1>9 DEF JInv
<1> QED BY <1>4, <1>6, <1>8, <1>11, <1>12 DEF JInv

(* Updates, archivals and connections change a row at most.                *)
LEMMA ChangeStep ==
  ASSUME WellNamed, JInv, NEW s \in Subjects, NEW w \in Spaces, NEW owners \in SUBSET Control!Names,
         \/ Control!UpdateWorkspace(s, w, owners) \/ Control!ArchiveWorkspace(s, w)
         \/ Control!CreateGitHubInstallation(s, w)
  PROVE  JInv'
<1>1. /\ space[w] # Control!NoSpace
      /\ Control!CanAdmin(s, w) \/ Control!HasRole(s, "platform-admin")
      /\ UNCHANGED <<tenant, unit, tuples, writing, ownedOnce>>
      /\ changed'.space = w /\ changed'.by = s
      /\ changed'.op \in {"update", "archive", "connect"}
  BY DEF Control!UpdateWorkspace, Control!ArchiveWorkspace, Control!MayArchive, Control!CreateGitHubInstallation
<1>2. \/ owners # {} /\ space' = [space EXCEPT ![w].owners = owners]
      \/ space' = [space EXCEPT ![w].archived = TRUE]
      \/ space' = space
  BY DEF Control!UpdateWorkspace, Control!ArchiveWorkspace, Control!CreateGitHubInstallation
<1>3. Rows
  BY DEF JInv
<1>4. /\ space' \in [Spaces -> [of : Units \cup {Control!Nobody}, owners : SUBSET Control!Names,
                                by : Subjects \cup {Control!Nobody}, archived : BOOLEAN]]
      /\ \A v \in Spaces : space'[v].by = space[v].by /\ space'[v].of = space[v].of
      /\ \A v \in Spaces : space'[v].owners = space[v].owners \/ (v = w /\ space'[v].owners # {})
      /\ \A v \in Spaces : v # w => space'[v] = space[v]
  <2>1. CASE owners # {} /\ space' = [space EXCEPT ![w].owners = owners]
    BY <1>3, <2>1 DEF Rows
  <2>2. CASE space' = [space EXCEPT ![w].archived = TRUE]
    BY <1>3, <2>2 DEF Rows
  <2>3. CASE space' = space
    BY <1>3, <2>3 DEF Rows
  <2> QED BY <1>2, <2>1, <2>2, <2>3
<1>5. space'[w].owners # {}
  BY <1>1, <1>4 DEF JInv, Placed
<1>6. Placed'
  <2> SUFFICES ASSUME NEW v \in Spaces, space'[v] # Control!NoSpace
               PROVE  /\ space'[v].owners # {} /\ space'[v].of \in Units
                      /\ unit'[space'[v].of] # Control!NoUnit
    BY DEF Placed
  <2>1. space[v] # Control!NoSpace
    BY <1>1, <1>4
  <2> QED BY <1>1, <1>4, <1>5, <2>1 DEF JInv, Placed
<1>7. space'[w] # Control!NoSpace
  <2>1. space'[w].owners # Control!NoSpace.owners
    BY <1>5 DEF Control!NoSpace
  <2> QED BY <2>1
<1>8. RowsStay
  BY <1>1, <1>4, <1>7 DEF RowsStay
<1>9. TuplesJustified'
  BY <1>1, <1>8, JustifiedStays DEF JInv, TuplesJustified
<1>10. Allowed'
  <2>1. Control!Named(s, w) \/ Control!HasRole(s, "platform-admin")
    BY <1>1, OwnersOfSpaces
  <2>2. Control!Named(s, w)' \/ Control!HasRole(s, "platform-admin")
    BY <1>1, <1>4, <2>1 DEF Control!Named
  <2> QED BY <1>1, <2>2 DEF Allowed, Control!Named, Control!HasRole
<1> QED BY <1>1, <1>3, <1>4, <1>6, <1>9, <1>10 DEF JInv, Rows

(* Nothing is stored or queued at first.                                   *)
LEMMA JInvInit ==
  ASSUME Control!Init
  PROVE  JInv
<1>1. Rows
  BY DEF Control!Init, Rows, Control!NoUnit, Control!NoSpace
<1>2. Placed /\ TuplesJustified /\ tuples \cap writing = {}
  BY DEF Control!Init, Placed, TuplesJustified
<1>3. Allowed
  BY DEF Control!Init, Allowed, Control!Nothing
<1> QED BY <1>1, <1>2, <1>3 DEF JInv

(* Every step of the control plane keeps all of it.                        *)
LEMMA JInvStep ==
  ASSUME WellNamed, JInv, [Control!Next]_(Control!control)
  PROVE  JInv'
<1>1. CASE UNCHANGED Control!control
  BY <1>1
  DEF Control!control, JInv, Rows, Placed, TuplesJustified, Allowed, Justified,
      OfTenant, OfUnit, Parent, Workplace, Ownership, Control!Named
<1>2. ASSUME NEW s \in Subjects, NEW w \in Spaces, NEW owners \in Owners,
             Control!UpdateWorkspace(s, w, owners)
      PROVE  JInv'
  <2>1. owners \in SUBSET Control!Names
    BY DEF WellNamed
  <2> QED BY <1>2, <2>1, ChangeStep
<1>3. ASSUME NEW s \in Subjects, NEW w \in Spaces,
             Control!ArchiveWorkspace(s, w) \/ Control!CreateGitHubInstallation(s, w)
      PROVE  JInv'
  <2>1. {} \in SUBSET Control!Names
    OBVIOUS
  <2> QED BY <1>3, <2>1, ChangeStep
<1> QED
  BY <1>1, <1>2, <1>3, WriteStep, TenantStep, UnitStep, SpaceStep DEF Control!Next

(* Whatever tuples are lost and however requests overlap, who reaches a    *)
(* workspace was named its owner or is a platform-admin, and who changes   *)
(* one was allowed to (AccessSound of ControlPlane).                       *)
THEOREM ControlAccessSound ==
  ASSUME WellNamed
  PROVE  Control!Spec => []Control!AccessSound
<1>1. Control!Init => JInv
  BY JInvInit
<1>2. JInv /\ [Control!Next]_(Control!control) => JInv'
  BY JInvStep
<1>3. JInv => Control!AccessSound
  BY JInvSound
<1> QED BY <1>1, <1>2, <1>3, PTL DEF Control!Spec

ApprovalInv ==
  /\ standing \in [Approvals -> {"none", "pending"} \cup Approval!Outcomes]
  /\ disk \in [Approvals -> {"none", "pending"} \cup Approval!Outcomes]
  /\ told \in [Approvals -> SUBSET Approval!Outcomes]
  /\ Approval!OneOutcome

(* One save of approvals: a decided one stays as it was decided, and what  *)
(* is told is what then stands.                                            *)
LEMMA ApprovalSaves ==
  ASSUME ApprovalInv, up,
         NEW new \in [Approvals -> {"none", "pending"} \cup Approval!Outcomes],
         NEW tells \in [Approvals -> SUBSET Approval!Outcomes],
         \A a \in Approvals : standing[a] \in Approval!Outcomes => new[a] = standing[a],
         \A a \in Approvals : tells[a] \subseteq told[a] \cup {new[a]},
         Approval!Saves(new, tells)
  PROVE  ApprovalInv'
<1>1. \A a \in Approvals : \A o \in told[a] : new[a] = o
  BY DEF ApprovalInv, Approval!OneOutcome
<1>2. \A a \in Approvals : \A o \in tells[a] : new[a] = o
  BY <1>1
<1>3. ApprovalInv!1' /\ ApprovalInv!2' /\ ApprovalInv!3'
  BY DEF ApprovalInv, Approval!Saves
<1>4. Approval!OneOutcome'
  BY <1>1, <1>2 DEF ApprovalInv, Approval!Saves, Approval!OneOutcome
<1> QED BY <1>3, <1>4 DEF ApprovalInv

(* Decisions, expiries, events, crashes and loads keep it.                 *)
LEMMA ApprovalStep ==
  ASSUME ApprovalInv, Approval!Next PROVE ApprovalInv'
<1> USE DEF Approval!Outcomes
<1>1. ASSUME NEW a \in Approvals, Approval!Create(a) PROVE ApprovalInv'
  <2> DEFINE new == [standing EXCEPT ![a] = "pending"]
  <2>1. up /\ standing[a] = "none" /\ Approval!Saves(new, told)
    BY <1>1 DEF Approval!Create
  <2>2. new \in [Approvals -> {"none", "pending"} \cup Approval!Outcomes]
    BY DEF ApprovalInv
  <2>3. \A b \in Approvals : standing[b] \in Approval!Outcomes => new[b] = standing[b]
    BY <2>1 DEF ApprovalInv
  <2>4. told \in [Approvals -> SUBSET Approval!Outcomes]
    BY DEF ApprovalInv
  <2> HIDE DEF new
  <2> QED BY <2>1, <2>2, <2>3, <2>4, ApprovalSaves
<1>2. ASSUME NEW a \in Approvals, NEW decision \in {"approved", "rejected"},
             Approval!Decide(a, decision)
      PROVE  ApprovalInv'
  <2> DEFINE new == IF Approval!Pending(a) THEN [standing EXCEPT ![a] = decision] ELSE standing
             tells == [told EXCEPT ![a] = @ \cup {new[a]}]
  <2>1. up /\ standing[a] # "none" /\ Approval!Saves(new, tells)
    BY <1>2 DEF Approval!Decide
  <2>2. new \in [Approvals -> {"none", "pending"} \cup Approval!Outcomes]
    BY <1>2 DEF ApprovalInv
  <2>3. \A b \in Approvals : standing[b] \in Approval!Outcomes => new[b] = standing[b]
    BY <2>1 DEF ApprovalInv, Approval!Pending
  <2>4. new[a] \in Approval!Outcomes
    BY <1>2, <2>1 DEF ApprovalInv, Approval!Pending
  <2>5. /\ tells \in [Approvals -> SUBSET Approval!Outcomes]
        /\ \A b \in Approvals : tells[b] \subseteq told[b] \cup {new[b]}
    <3> HIDE DEF new
    <3> QED BY <2>4 DEF ApprovalInv
  <2> HIDE DEF new, tells
  <2> QED BY <2>1, <2>2, <2>3, <2>5, ApprovalSaves
<1>3. ASSUME NEW a \in Approvals, Approval!TimePasses(a) PROVE ApprovalInv'
  BY <1>3 DEF ApprovalInv, Approval!TimePasses, Approval!OneOutcome
<1>4. CASE Approval!ExpireDue
  <2> DEFINE lapsed == {a \in due : standing[a] = "pending"}
             new    == [a \in Approvals |-> IF a \in lapsed THEN "expired" ELSE standing[a]]
             tells  == [a \in Approvals |-> IF a \in lapsed THEN told[a] \cup {"expired"}
                                                            ELSE told[a]]
  <2>1. up /\ Approval!Saves(new, tells)
    BY <1>4, Zenon DEF Approval!ExpireDue
  <2>2. new \in [Approvals -> {"none", "pending"} \cup Approval!Outcomes]
    BY DEF ApprovalInv
  <2>3. \A b \in Approvals : standing[b] \in Approval!Outcomes => new[b] = standing[b]
    BY DEF ApprovalInv
  <2>4. /\ tells \in [Approvals -> SUBSET Approval!Outcomes]
        /\ \A b \in Approvals : tells[b] \subseteq told[b] \cup {new[b]}
    BY DEF ApprovalInv
  <2> HIDE DEF new, tells
  <2> QED BY <2>1, <2>2, <2>3, <2>4, ApprovalSaves
<1>5. CASE Approval!Crash
  BY <1>5 DEF ApprovalInv, Approval!Crash, Approval!OneOutcome
<1>6. CASE Approval!Load
  BY <1>6 DEF ApprovalInv, Approval!Load, Approval!OneOutcome
<1> QED BY <1>1, <1>2, <1>3, <1>4, <1>5, <1>6 DEF Approval!Next

OverrideInv ==
  /\ state \in [Overrides -> Override!States \cup {"none"}]
  /\ saying \subseteq [ov : Overrides, type : {"granted"} \cup Override!Terminal]
  /\ \A e \in events : e.ov \in Overrides /\ e.type \in {"granted"} \cup Override!Terminal
  /\ \A e \in saying : e.type # "granted" => state[e.ov] = e.type
  /\ Override!EndsOnce

(* Some active overrides end, each with the event of its end to come.      *)
LEMMA OverrideEnds ==
  ASSUME OverrideInv, NEW new \in Override!Terminal, NEW S \in SUBSET Overrides,
         \A o \in S : state[o] = "active",
         state' = [o \in Overrides |-> IF o \in S THEN new ELSE state[o]],
         saying' = saying \cup {[ov |-> o, type |-> new] : o \in S},
         UNCHANGED <<events, used>>
  PROVE  OverrideInv'
<1> USE DEF Override!States, Override!Terminal
<1>1. OverrideInv!1' /\ OverrideInv!2' /\ OverrideInv!3'
  BY DEF OverrideInv
<1>2. \A o \in Overrides : state[o] \in Override!Terminal => o \notin S /\ state'[o] = state[o]
  BY DEF OverrideInv
<1>3. \A e \in saying' : e.type # "granted" => state'[e.ov] = e.type
  <2> SUFFICES ASSUME NEW e \in saying', e.type # "granted" PROVE state'[e.ov] = e.type
    OBVIOUS
  <2>1. CASE e \in saying
    BY <1>2, <2>1 DEF OverrideInv
  <2>2. CASE \E o \in S : e = [ov |-> o, type |-> new]
    BY <2>2
  <2> QED BY <2>1, <2>2
<1>4. ASSUME NEW o \in Overrides
      PROVE  /\ \A e \in Override!EndsTold(o)' : e.type = state'[o] /\ e.saw = state'[o]
             /\ o \in used' => state'[o] = "consumed"
  <2>1. \A e \in Override!EndsTold(o) : e.type = state[o] /\ e.saw = state[o] /\ state[o] \in Override!Terminal
    BY DEF OverrideInv, Override!EndsOnce, Override!EndsTold
  <2>2. Override!EndsTold(o)' = Override!EndsTold(o)
    BY DEF Override!EndsTold
  <2> QED BY <1>2, <2>1, <2>2 DEF OverrideInv, Override!EndsOnce
<1>5. ASSUME NEW o \in Overrides, state'[o] \in Override!Terminal
      PROVE  \/ \E e \in saying' : e.ov = o /\ e.type = state'[o]
             \/ Override!EndsTold(o)' # {}
  <2>1. CASE o \in S
    <3>1. [ov |-> o, type |-> new] \in saying'
      BY <2>1
    <3>2. state'[o] = new
      BY <2>1
    <3> QED BY <3>1, <3>2
  <2>2. CASE o \notin S
    BY <1>5, <2>2 DEF OverrideInv, Override!EndsOnce, Override!EndsTold
  <2> QED BY <2>1, <2>2
<1> QED BY <1>1, <1>3, <1>4, <1>5, Zenon DEF OverrideInv, Override!EndsOnce

(* Grants, uses, revocations, expiries and events keep it.                 *)
LEMMA OverrideStep ==
  ASSUME OverrideInv, Override!Next PROVE OverrideInv'
<1> USE DEF Override!States, Override!Terminal
<1>1. ASSUME NEW o \in Overrides, NEW ttl \in 1..MaxTTL, Override!Grant(o, ttl)
      PROVE  OverrideInv'
  <2>1. OverrideInv!1' /\ OverrideInv!2' /\ OverrideInv!3'
    BY <1>1 DEF OverrideInv, Override!Grant
  <2>2. \A p \in Overrides : state[p] \in Override!Terminal => p # o /\ state'[p] = state[p]
    BY <1>1 DEF OverrideInv, Override!Grant
  <2>3. OverrideInv!4'
    BY <1>1, <2>2 DEF OverrideInv, Override!Grant
  <2>4. Override!EndsOnce'
    <3> SUFFICES ASSUME NEW p \in Overrides
                 PROVE  /\ \A e \in Override!EndsTold(p)' : e.type = state'[p] /\ e.saw = state'[p]
                        /\ p \in used' => state'[p] = "consumed"
                        /\ state'[p] \in Override!Terminal =>
                             \/ \E e \in saying' : e.ov = p /\ e.type = state'[p]
                             \/ Override!EndsTold(p)' # {}
      BY Zenon DEF Override!EndsOnce
    <3>1. Override!EndsTold(p)' = Override!EndsTold(p)
      BY <1>1 DEF Override!Grant, Override!EndsTold
    <3>2. \A e \in Override!EndsTold(p) : e.type = state[p] /\ e.saw = state[p] /\ state[p] \in Override!Terminal
      BY DEF OverrideInv, Override!EndsOnce, Override!EndsTold
    <3>3. p \in used' => state'[p] = "consumed"
      BY <1>1, <2>2 DEF OverrideInv, Override!EndsOnce, Override!Grant
    <3>4. ASSUME state'[p] \in Override!Terminal
          PROVE  \/ \E e \in saying' : e.ov = p /\ e.type = state'[p]
                 \/ Override!EndsTold(p) # {}
      <4>1. p # o /\ state'[p] = state[p] /\ saying \subseteq saying'
        BY <1>1, <3>4 DEF OverrideInv, Override!Grant
      <4> QED BY <3>4, <4>1 DEF OverrideInv, Override!EndsOnce
    <3> QED BY <2>2, <3>1, <3>2, <3>3, <3>4
  <2> QED BY <2>1, <2>3, <2>4 DEF OverrideInv
<1>2. ASSUME NEW o \in Overrides, NEW new \in {"consumed", "revoked"},
             \/ new = "consumed" /\ Override!Consume(o)
             \/ new = "revoked" /\ Override!Revoke(o)
      PROVE  OverrideInv'
  <2> DEFINE S == {o}
  <2>1. /\ \A p \in S : state[p] = "active"
        /\ state' = [p \in Overrides |-> IF p \in S THEN new ELSE state[p]]
        /\ saying' = saying \cup {[ov |-> p, type |-> new] : p \in S}
        /\ UNCHANGED <<events, used>>
    BY <1>2 DEF OverrideInv, Override!Consume, Override!Revoke, Override!Active
  <2>2. new \in Override!Terminal /\ S \in SUBSET Overrides
    OBVIOUS
  <2> HIDE DEF S
  <2> QED BY <2>1, <2>2, OverrideEnds
<1>3. CASE Override!ReconcileExpired
  <2> DEFINE S == {o \in Overrides : Override!Lapsed(o)}
  <2>1. /\ \A p \in S : state[p] = "active"
        /\ state' = [p \in Overrides |-> IF p \in S THEN "expired" ELSE state[p]]
        /\ saying' = saying \cup {[ov |-> p, type |-> "expired"] : p \in S}
        /\ UNCHANGED <<events, used>>
    <3>1. /\ state' = [p \in Overrides |-> IF p \in S THEN "expired" ELSE state[p]]
          /\ saying' = saying \cup [ov : S, type : {"expired"}]
          /\ UNCHANGED <<events, used>>
      BY <1>3, Zenon DEF Override!ReconcileExpired
    <3>2. [ov : S, type : {"expired"}] = {[ov |-> p, type |-> "expired"] : p \in S}
      <4> HIDE DEF S
      <4>1. \A r \in [ov : S, type : {"expired"}] : r = [ov |-> r.ov, type |-> "expired"]
        OBVIOUS
      <4>2. \A p \in S : [ov |-> p, type |-> "expired"] \in [ov : S, type : {"expired"}]
        OBVIOUS
      <4>3. \A r \in [ov : S, type : {"expired"}] : r.ov \in S
        OBVIOUS
      <4>4. \A r : r \in [ov : S, type : {"expired"}]
                  <=> r \in {[ov |-> p, type |-> "expired"] : p \in S}
        BY <4>1, <4>2, <4>3
      <4> QED BY <4>4
    <3>3. \A p \in S : state[p] = "active"
      BY DEF Override!Lapsed, Override!Active
    <3> QED BY <3>1, <3>2, <3>3
  <2>2. S \in SUBSET Overrides /\ "expired" \in Override!Terminal
    OBVIOUS
  <2> HIDE DEF S
  <2> QED BY <2>1, <2>2, OverrideEnds
<1>4. ASSUME NEW e \in saying, Override!Emit(e) PROVE OverrideInv'
  <2> DEFINE telling == [ov |-> e.ov, type |-> e.type, saw |-> state[e.ov]]
  <2>1. /\ state' = state /\ saying' = saying \ {e} /\ events' = events \cup {telling}
        /\ used' = IF e.type = "consumed" THEN used \cup {e.ov} ELSE used
    BY <1>4 DEF Override!Emit
  <2>2. /\ e.ov \in Overrides /\ e.type \in {"granted"} \cup Override!Terminal
        /\ e.type # "granted" => state[e.ov] = e.type
    BY DEF OverrideInv
  <2>3. OverrideInv!1' /\ OverrideInv!2' /\ OverrideInv!3' /\ OverrideInv!4'
    BY <2>1, <2>2 DEF OverrideInv
  <2>4. ASSUME NEW o \in Overrides
        PROVE  /\ \A f \in Override!EndsTold(o)' : f.type = state[o] /\ f.saw = state[o]
               /\ o \in used' => state[o] = "consumed"
    BY <2>1, <2>2 DEF OverrideInv, Override!EndsOnce, Override!EndsTold
  <2>5. ASSUME NEW o \in Overrides, state[o] \in Override!Terminal
        PROVE  \/ \E f \in saying' : f.ov = o /\ f.type = state[o]
               \/ Override!EndsTold(o)' # {}
    <3>1. CASE Override!EndsTold(o) # {}
      BY <2>1, <3>1 DEF Override!EndsTold
    <3>2. CASE \E f \in saying : f.ov = o /\ f.type = state[o]
      <4>1. PICK f \in saying : f.ov = o /\ f.type = state[o]
        BY <3>2
      <4>2. CASE f = e
        <5>1. telling \in events' /\ telling.ov = o /\ telling.type # "granted"
          BY <2>1, <2>5, <4>1, <4>2
        <5> HIDE DEF telling
        <5> QED BY <5>1 DEF Override!EndsTold
      <4>3. CASE f # e
        BY <2>1, <4>1, <4>3
      <4> QED BY <4>2, <4>3
    <3> QED BY <2>5, <3>1, <3>2 DEF OverrideInv, Override!EndsOnce
  <2> QED BY <2>1, <2>3, <2>4, <2>5, Zenon DEF OverrideInv, Override!EndsOnce
<1>5. CASE Override!Tick
  BY <1>5 DEF Override!Tick, OverrideInv, Override!EndsOnce, Override!EndsTold
<1> QED BY <1>1, <1>2, <1>3, <1>4, <1>5 DEF Override!Next

Handled(c) == IF stage[c] \in {"insert", "trigger"} THEN record[c] - 1 ELSE polled[c]

Kept(c, e) ==
  <<c, e>> \in dropped \/ \E i \in DOMAIN rows : rows[i].by = c /\ rows[i].event = e

AuditTypes ==
  /\ topic \in [Consumers -> Seq(Times)]
  /\ stage \in [Consumers -> {"poll", "insert", "trigger", "commit"}]
  /\ offset \in [Consumers -> Nat] /\ polled \in [Consumers -> Nat]
  /\ record \in [Consumers -> Nat] /\ saw \in [Consumers -> Nat]
  /\ rows \in Seq(Audit!Row)
  /\ serial \in BOOLEAN

AuditOrder ==
  \A c \in Consumers :
    /\ offset[c] <= Handled(c) /\ Handled(c) <= polled[c] /\ polled[c] <= Len(topic[c])
    /\ stage[c] \in {"insert", "trigger"} => record[c] \in 1..polled[c]

AuditNumbers ==
  /\ \A i \in DOMAIN rows : rows[i].nth \in 1..Len(rows) /\ rows[i].prev <= Len(rows)
  /\ \A c \in Consumers : saw[c] <= Len(rows)

AuditInv ==
  /\ AuditTypes
  /\ AuditOrder
  /\ AuditNumbers
  /\ \A c \in Consumers : \A e \in 1..Handled(c) : Kept(c, e)
  /\ Audit!ChainIsValid <=> serial

(* What InsertAt makes of a sequence.                                      *)
LEMMA InsertedAt ==
  ASSUME NEW S, NEW s \in Seq(S), NEW e \in S, NEW i \in 1..(Len(s) + 1)
  PROVE  /\ Audit!InsertAt(s, i, e) \in Seq(S)
         /\ Len(Audit!InsertAt(s, i, e)) = Len(s) + 1
         /\ Audit!InsertAt(s, i, e)[i] = e
         /\ \A j \in 1..(i - 1) : Audit!InsertAt(s, i, e)[j] = s[j]
         /\ \A j \in i..Len(s) : Audit!InsertAt(s, i, e)[j + 1] = s[j]
<1> DEFINE a == SubSeq(s, 1, i - 1)
           b == SubSeq(s, i, Len(s))
           u == a \o <<e>>
           t == u \o b
<1>1. a \in Seq(S) /\ Len(a) = i - 1
  OBVIOUS
<1>2. \A j \in 1..(i - 1) : a[j] = s[j]
  OBVIOUS
<1>3. b \in Seq(S) /\ Len(b) = Len(s) + 1 - i
  OBVIOUS
<1>4. \A j \in 1..Len(b) : b[j] = s[i + j - 1]
  OBVIOUS
<1> HIDE DEF a, b
<1>5. u \in Seq(S) /\ Len(u) = i
  BY <1>1
<1>6. u[i] = e /\ \A j \in 1..(i - 1) : u[j] = s[j]
  BY <1>1, <1>2
<1> HIDE DEF u
<1>7. t \in Seq(S) /\ Len(t) = Len(s) + 1
  BY <1>3, <1>5
<1>8. \A j \in 1..Len(u) : t[j] = u[j]
  BY <1>3, <1>5
<1>9. t[i] = e /\ \A j \in 1..(i - 1) : t[j] = s[j]
  BY <1>5, <1>6, <1>8
<1>10. \A j \in i..Len(s) : t[j + 1] = s[j]
  <2> TAKE j \in i..Len(s)
  <2>1. j + 1 \in (Len(u) + 1)..(Len(u) + Len(b)) /\ j + 1 - i \in 1..Len(b)
    BY <1>3, <1>5
  <2>2. t[j + 1] = b[j + 1 - i]
    BY <1>3, <1>5, <2>1
  <2>3. b[j + 1 - i] = s[i + (j + 1 - i) - 1] /\ i + (j + 1 - i) - 1 = j
    BY <1>3, <1>4, <2>1
  <2> QED BY <2>2, <2>3
<1>11. Audit!InsertAt(s, i, e) = t
  BY DEF Audit!InsertAt, a, b, u
<1> HIDE DEF t
<1> QED BY <1>7, <1>9, <1>10, <1>11

(* The number of the latest row, as the trigger reads it.                  *)
LEMMA LatestNumber ==
  ASSUME AuditTypes, AuditNumbers
  PROVE  /\ Audit!Latest \in Nat /\ Audit!Latest <= Len(rows)
         /\ Audit!Latest = IF Len(rows) = 0 THEN 0 ELSE rows[Len(rows)].nth
<1>1. rows = <<>> <=> Len(rows) = 0
  BY DEF AuditTypes
<1> QED BY <1>1 DEF AuditTypes, AuditNumbers, Audit!Latest, Audit!Last

(* An insert leaves a valid chain exactly when it is serial: it ended last *)
(* and had seen the row before it.                                         *)
LEMMA InsertChains ==
  ASSUME AuditInv, NEW c \in Consumers, NEW row \in Audit!Row, NEW i \in 1..(Len(rows) + 1),
         row.nth = Len(rows) + 1, row.prev = saw[c],
         rows' = Audit!InsertAt(rows, i, row),
         serial' = (serial /\ i = Len(rows) + 1 /\ saw[c] = Audit!Latest)
  PROVE  (Audit!ChainIsValid <=> serial)'
<1> DEFINE n == Len(rows)
<1>0. n \in Nat /\ rows \in Seq(Audit!Row)
  BY DEF AuditInv, AuditTypes
<1>1. /\ rows' \in Seq(Audit!Row) /\ Len(rows') = n + 1 /\ rows'[i] = row
      /\ \A j \in 1..(i - 1) : rows'[j] = rows[j]
      /\ \A j \in i..n : rows'[j + 1] = rows[j]
  BY <1>0, InsertedAt, SMTT(60)
<1>2. Audit!Latest = IF n = 0 THEN 0 ELSE rows[n].nth
  BY LatestNumber DEF AuditInv
<1> DEFINE before(j) == IF j = 1 THEN 0 ELSE rows[j - 1].nth
           before1(j) == IF j = 1 THEN 0 ELSE rows'[j - 1].nth
<1>3. Audit!ChainIsValid' <=> \A j \in 1..(n + 1) : rows'[j].prev = before1(j)
  <2>1. DOMAIN rows' = 1..(n + 1)
    BY <1>0, <1>1
  <2> QED BY <2>1, Zenon DEF Audit!ChainIsValid
<1>4. Audit!ChainIsValid <=> \A j \in 1..n : rows[j].prev = before(j)
  BY <1>0 DEF Audit!ChainIsValid
<1>5. CASE i = n + 1
  <2>1. \A j \in 1..n : rows'[j] = rows[j] /\ before1(j) = before(j)
    BY <1>0, <1>1, <1>5
  <2>2. before1(n + 1) = Audit!Latest
    BY <1>0, <1>1, <1>2, <1>5
  <2>3. rows'[n + 1].prev = saw[c]
    BY <1>1, <1>5
  <2>4. (\A j \in 1..(n + 1) : rows'[j].prev = before1(j))
          <=> (\A j \in 1..n : rows'[j].prev = before1(j)) /\ rows'[n + 1].prev = before1(n + 1)
    <3> HIDE DEF before1, n
    <3>1. 1..(n + 1) = (1..n) \cup {n + 1}
      BY <1>0
    <3> QED BY <3>1
  <2> HIDE DEF before, before1
  <2>5. Audit!ChainIsValid' <=> Audit!ChainIsValid /\ saw[c] = Audit!Latest
    BY <1>3, <1>4, <2>1, <2>2, <2>3, <2>4
  <2> QED BY <1>5, <2>5 DEF AuditInv
<1>6. CASE i # n + 1
  <2>1. i \in 1..n /\ rows'[i + 1] = rows[i]
    BY <1>0, <1>1, <1>6
  <2>2. rows[i].prev <= n /\ rows[i].prev \in Nat
    <3>1. i \in DOMAIN rows /\ rows[i] \in Audit!Row
      BY <1>0, <2>1
    <3> QED BY <3>1 DEF AuditInv, AuditNumbers, Audit!Row
  <2>3. before1(i + 1) = n + 1
    BY <1>0, <1>1, <2>1
  <2>4. ~ Audit!ChainIsValid'
    <3> HIDE DEF before1
    <3> QED BY <1>0, <1>3, <2>1, <2>2, <2>3
  <2> QED BY <1>6, <2>4 DEF AuditInv
<1> QED BY <1>5, <1>6

(* A consumer that goes on to its next record has handled the last.        *)
LEMMA OnwardHandles ==
  ASSUME AuditTypes, AuditOrder, NEW c \in Consumers, stage[c] = "trigger",
         Audit!Onward(c), UNCHANGED <<topic, offset, polled>>
  PROVE  /\ stage' \in [Consumers -> {"poll", "insert", "trigger", "commit"}]
         /\ record' \in [Consumers -> Nat] /\ saw' \in [Consumers -> Nat]
         /\ saw' = [saw EXCEPT ![c] = 0]
         /\ \A d \in Consumers : Handled(d)' = IF d = c THEN record[c] ELSE Handled(d)
         /\ Handled(c) = record[c] - 1
         /\ AuditOrder'
<1>1. /\ stage' \in [Consumers -> {"poll", "insert", "trigger", "commit"}]
      /\ record' \in [Consumers -> Nat] /\ saw' \in [Consumers -> Nat]
      /\ saw' = [saw EXCEPT ![c] = 0]
  BY DEF AuditTypes, Audit!Onward
<1>2. /\ record[c] \in 1..polled[c] /\ polled[c] \in Nat /\ offset[c] \in Nat
      /\ Handled(c) = record[c] - 1
  BY DEF AuditTypes, AuditOrder, Handled
<1>3. Handled(c)' = record[c]
  <2>1. CASE record[c] < polled[c]
    BY <1>2, <2>1 DEF Audit!Onward, Handled, AuditTypes
  <2>2. CASE record[c] = polled[c]
    BY <1>2, <2>2 DEF Audit!Onward, Handled, AuditTypes
  <2> QED BY <1>2, <2>1, <2>2
<1>4. \A d \in Consumers : d # c => Handled(d)' = Handled(d) /\ stage'[d] = stage[d] /\ record'[d] = record[d]
  BY DEF Audit!Onward, Handled, AuditTypes
<1>5. AuditOrder'
  <2> SUFFICES ASSUME NEW d \in Consumers PROVE AuditOrder!(d)'
    BY DEF AuditOrder
  <2>1. CASE d = c
    <3>1. stage'[c] \in {"insert", "trigger"} => record'[c] \in 1..polled[c]
      BY <1>2 DEF Audit!Onward, AuditTypes
    <3> QED BY <1>2, <1>3, <2>1, <3>1 DEF AuditOrder
  <2>2. CASE d # c
    BY <1>4, <2>2 DEF AuditOrder
  <2> QED BY <2>1, <2>2
<1> QED BY <1>1, <1>2, <1>3, <1>4, <1>5

(* A step that inserts nothing keeps the trail.                            *)
LEMMA AuditUnchangedRows ==
  ASSUME AuditInv, rows' = rows, serial' = serial, AuditTypes', AuditOrder',
         dropped \subseteq dropped',
         \A c \in Consumers : saw'[c] \in {saw[c], 0, Audit!Latest},
         \A c \in Consumers : \A e \in 1..Handled(c)' : e \in 1..Handled(c) \/ <<c, e>> \in dropped'
  PROVE  AuditInv'
<1>1. AuditNumbers'
  <2>1. Audit!Latest <= Len(rows) /\ 0 <= Len(rows)
    BY LatestNumber DEF AuditInv, AuditTypes
  <2>2. \A c \in Consumers : saw'[c] <= Len(rows)
    BY <2>1 DEF AuditInv, AuditNumbers
  <2> QED BY <2>2 DEF AuditInv, AuditNumbers
<1>2. ASSUME NEW c \in Consumers, NEW e \in 1..Handled(c)' PROVE Kept(c, e)'
  <2>1. CASE e \in 1..Handled(c)
    <3>1. Kept(c, e)
      BY <2>1 DEF AuditInv
    <3> QED BY <3>1 DEF Kept
  <2>2. CASE <<c, e>> \in dropped'
    BY <2>2 DEF Kept
  <2> QED BY <2>1, <2>2
<1>3. (Audit!ChainIsValid <=> serial)'
  BY DEF AuditInv, Audit!ChainIsValid
<1> QED BY <1>1, <1>2, <1>3 DEF AuditInv

(* Polls, inserts, losses, commits and deaths of consumers keep it.        *)
LEMMA AuditStep ==
  ASSUME AuditInv, Audit!Next PROVE AuditInv'
<1>1. ASSUME NEW c \in Consumers, Audit!Poll(c) PROVE AuditInv'
  <2>1. PICK n \in (polled[c] + 1)..Len(topic[c]) :
          /\ polled' = [polled EXCEPT ![c] = n]
          /\ \/ /\ stage' = [stage EXCEPT ![c] = "insert"]
                /\ record' = [record EXCEPT ![c] = polled[c] + 1]
                /\ UNCHANGED dropped
             \/ /\ dropped' = dropped \cup ({c} \X ((polled[c] + 1)..n))
                /\ UNCHANGED <<stage, record>>
    BY <1>1 DEF Audit!Poll
  <2>2. stage[c] = "poll" /\ UNCHANGED <<topic, offset, saw, rows, serial>>
    BY <1>1 DEF Audit!Poll
  <2>3. polled[c] \in Nat /\ n \in Nat /\ n > polled[c] /\ n <= Len(topic[c])
    BY <2>1 DEF AuditInv, AuditTypes
  <2>4. AuditTypes'
    <3>1. polled' \in [Consumers -> Nat]
      BY <2>1, <2>3 DEF AuditInv, AuditTypes
    <3>2. /\ stage' \in [Consumers -> {"poll", "insert", "trigger", "commit"}]
          /\ record' \in [Consumers -> Nat]
      <4>1. CASE UNCHANGED <<stage, record>>
        BY <4>1 DEF AuditInv, AuditTypes
      <4>2. CASE /\ stage' = [stage EXCEPT ![c] = "insert"]
                 /\ record' = [record EXCEPT ![c] = polled[c] + 1]
        BY <2>3, <4>2 DEF AuditInv, AuditTypes
      <4> QED BY <2>1, <4>1, <4>2
    <3> QED BY <2>2, <3>1, <3>2 DEF AuditInv, AuditTypes
  <2>5. Handled(c) = polled[c]
    BY <2>2 DEF Handled
  <2>6. \A d \in Consumers : d # c => Handled(d)' = Handled(d)
    BY <2>1, <2>4 DEF Handled, AuditInv, AuditTypes
  <2>7. offset[c] <= polled[c] /\ offset[c] \in Nat
    BY <2>2, <2>5 DEF AuditInv, AuditOrder, AuditTypes
  <2>8. CASE stage' = [stage EXCEPT ![c] = "insert"] /\ record' = [record EXCEPT ![c] = polled[c] + 1] /\ UNCHANGED dropped
    <3>1. Handled(c)' = polled[c]
      BY <2>3, <2>8 DEF Handled, AuditInv, AuditTypes
    <3>2. AuditOrder'
      <4> SUFFICES ASSUME NEW d \in Consumers PROVE AuditOrder!(d)'
        BY DEF AuditOrder
      <4>1. CASE d = c
        BY <2>1, <2>2, <2>3, <2>7, <2>8, <3>1, <4>1 DEF AuditInv, AuditTypes
      <4>2. CASE d # c
        BY <2>1, <2>2, <2>6, <2>8, <4>2 DEF AuditInv, AuditTypes, AuditOrder
      <4> QED BY <4>1, <4>2
    <3>3. \A d \in Consumers : Handled(d)' = Handled(d)
      BY <2>5, <2>6, <3>1
    <3> QED BY <2>2, <2>4, <2>8, <3>2, <3>3, AuditUnchangedRows DEF AuditInv, AuditTypes
  <2>9. CASE dropped' = dropped \cup ({c} \X ((polled[c] + 1)..n)) /\ UNCHANGED <<stage, record>>
    <3>1. Handled(c)' = n
      BY <2>1, <2>2, <2>3, <2>9 DEF Handled, AuditInv, AuditTypes
    <3>2. AuditOrder'
      <4> SUFFICES ASSUME NEW d \in Consumers PROVE AuditOrder!(d)'
        BY DEF AuditOrder
      <4>1. CASE d = c
        BY <2>1, <2>2, <2>3, <2>7, <2>9, <3>1, <4>1 DEF AuditInv, AuditTypes
      <4>2. CASE d # c
        BY <2>1, <2>2, <2>6, <2>9, <4>2 DEF AuditInv, AuditTypes, AuditOrder
      <4> QED BY <4>1, <4>2
    <3>3. \A d \in Consumers : \A e \in 1..Handled(d)' : e \in 1..Handled(d) \/ <<d, e>> \in dropped'
      BY <2>3, <2>5, <2>6, <2>9, <3>1
    <3> QED BY <2>2, <2>4, <2>9, <3>2, <3>3, AuditUnchangedRows
  <2> QED BY <2>1, <2>8, <2>9
<1>2. ASSUME NEW c \in Consumers, Audit!Trigger(c) PROVE AuditInv'
  <2>1. AuditTypes'
    BY <1>2, LatestNumber DEF AuditInv, AuditTypes, Audit!Trigger
  <2>2. \A d \in Consumers : Handled(d)' = Handled(d)
    BY <1>2, <2>1 DEF AuditInv, AuditTypes, Audit!Trigger, Handled
  <2>3. AuditOrder'
    BY <1>2, <2>2 DEF AuditInv, AuditTypes, Audit!Trigger, AuditOrder
  <2>4. \A d \in Consumers : saw'[d] \in {saw[d], 0, Audit!Latest}
    BY <1>2 DEF AuditInv, AuditTypes, Audit!Trigger
  <2>5. rows' = rows /\ serial' = serial /\ dropped \subseteq dropped'
    BY <1>2 DEF Audit!Trigger
  <2> QED BY <2>1, <2>2, <2>3, <2>4, <2>5, AuditUnchangedRows
<1>3. ASSUME NEW c \in Consumers, Audit!Insert(c) PROVE AuditInv'
  <2> DEFINE time == topic[c][record[c]]
             row  == [by |-> c, event |-> record[c], at |-> time, nth |-> Len(rows) + 1,
                      prev |-> saw[c]]
             n == Len(rows)
  <2>1. PICK i \in 1..(Len(rows) + 1) :
          /\ rows' = Audit!InsertAt(rows, i, row)
          /\ serial' = (serial /\ i = Len(rows) + 1 /\ saw[c] = Audit!Latest)
    BY <1>3 DEF Audit!Insert
  <2>2. stage[c] = "trigger" /\ Audit!Onward(c) /\ UNCHANGED <<topic, offset, polled, dropped>>
    BY <1>3 DEF Audit!Insert
  <2>3. /\ stage' \in [Consumers -> {"poll", "insert", "trigger", "commit"}]
        /\ record' \in [Consumers -> Nat] /\ saw' \in [Consumers -> Nat]
        /\ saw' = [saw EXCEPT ![c] = 0]
        /\ \A d \in Consumers : Handled(d)' = IF d = c THEN record[c] ELSE Handled(d)
        /\ Handled(c) = record[c] - 1
        /\ AuditOrder'
    BY <2>2, OnwardHandles DEF AuditInv
  <2>4. row \in Audit!Row
    <3>1. record[c] \in 1..polled[c] /\ polled[c] <= Len(topic[c]) /\ topic[c] \in Seq(Times)
          /\ polled[c] \in Nat
      BY <2>2 DEF AuditInv, AuditOrder, AuditTypes
    <3>2. time \in Times
      BY <3>1
    <3> QED BY <3>2 DEF Audit!Row, AuditInv, AuditTypes
  <2>5. rows \in Seq(Audit!Row) /\ n \in Nat
    BY DEF AuditInv, AuditTypes
  <2> HIDE DEF row
  <2>6. /\ rows' \in Seq(Audit!Row) /\ Len(rows') = n + 1 /\ rows'[i] = row
        /\ \A j \in 1..(i - 1) : rows'[j] = rows[j]
        /\ \A j \in i..n : rows'[j + 1] = rows[j]
    BY <2>1, <2>4, <2>5, InsertedAt, SMTT(60)
  <2>7. row.nth = n + 1 /\ row.prev = saw[c] /\ row.by = c /\ row.event = record[c]
    BY DEF row
  <2>8. AuditTypes'
    BY <2>1, <2>2, <2>3, <2>6 DEF AuditInv, AuditTypes
  <2>9. (Audit!ChainIsValid <=> serial)'
    BY <2>1, <2>4, <2>7, InsertChains
  <2>10. saw[c] \in Nat /\ saw[c] <= n
    BY DEF AuditInv, AuditTypes, AuditNumbers
  <2>11. \A j \in 1..(n + 1) : \/ rows'[j] = row
                               \/ \E k \in 1..n : rows'[j] = rows[k]
    <3> SUFFICES ASSUME NEW j \in 1..(n + 1) PROVE rows'[j] = row \/ \E k \in 1..n : rows'[j] = rows[k]
      OBVIOUS
    <3>1. CASE j < i
      BY <2>5, <2>6, <3>1
    <3>2. CASE j > i
      <4>1. PICK k \in i..n : k = j - 1 /\ j = k + 1
        BY <2>5, <3>2
      <4>2. k \in 1..n /\ rows'[k + 1] = rows[k]
        BY <2>5, <2>6
      <4> QED BY <4>1, <4>2
    <3> QED BY <2>6, <3>1, <3>2
  <2>12. \A k \in 1..n : \E j \in 1..(n + 1) : rows'[j] = rows[k]
    <3> TAKE k \in 1..n
    <3>1. CASE k < i
      BY <2>5, <2>6, <3>1
    <3>2. CASE k >= i
      BY <2>5, <2>6, <3>2
    <3> QED BY <2>5, <3>1, <3>2
  <2>13. DOMAIN rows = 1..n /\ DOMAIN rows' = 1..(n + 1)
    BY <2>5, <2>6
  <2>14. AuditNumbers'
    <3>1. \A k \in 1..n : /\ rows[k].nth \in 1..n
                          /\ rows[k].prev <= n /\ rows[k].prev \in Nat
      <4> TAKE k \in 1..n
      <4>1. rows[k] \in Audit!Row
        BY <2>5, <2>13
      <4> QED BY <2>13, <4>1 DEF AuditInv, AuditNumbers, Audit!Row
    <3>2. \A j \in 1..(n + 1) : rows'[j].nth \in 1..(n + 1) /\ rows'[j].prev <= n + 1
      BY <2>5, <2>7, <2>10, <2>11, <3>1
    <3>3. \A d \in Consumers : saw'[d] <= n + 1
      BY <2>3, <2>5 DEF AuditInv, AuditNumbers, AuditTypes
    <3> QED BY <2>6, <2>13, <3>2, <3>3 DEF AuditNumbers
  <2>15. ASSUME NEW d \in Consumers, NEW e \in 1..Handled(d)' PROVE Kept(d, e)'
    <3>1. CASE d = c /\ e = record[c]
      BY <2>5, <2>6, <2>7, <2>13, <3>1 DEF Kept
    <3>2. CASE ~(d = c /\ e = record[c])
      <4>1. Kept(d, e)
        <5>1. record[c] \in Nat /\ e \in Int
          BY DEF AuditInv, AuditTypes
        <5>2. e \in 1..Handled(d)
          BY <2>3, <3>2, <5>1
        <5> QED BY <5>2 DEF AuditInv
      <4> QED BY <2>2, <2>12, <2>13, <4>1 DEF Kept
    <3> QED BY <3>1, <3>2
  <2> QED BY <2>3, <2>8, <2>9, <2>14, <2>15 DEF AuditInv
<1>4. ASSUME NEW c \in Consumers, Audit!InsertFails(c) PROVE AuditInv'
  <2>1. /\ stage[c] = "trigger" /\ Audit!Onward(c)
        /\ dropped' = dropped \cup {<<c, record[c]>>}
        /\ UNCHANGED <<topic, offset, polled, rows, serial>>
    BY <1>4 DEF Audit!InsertFails
  <2>2. /\ stage' \in [Consumers -> {"poll", "insert", "trigger", "commit"}]
        /\ record' \in [Consumers -> Nat] /\ saw' \in [Consumers -> Nat]
        /\ saw' = [saw EXCEPT ![c] = 0]
        /\ \A d \in Consumers : Handled(d)' = IF d = c THEN record[c] ELSE Handled(d)
        /\ Handled(c) = record[c] - 1
        /\ AuditOrder'
    BY <2>1, OnwardHandles DEF AuditInv
  <2>3. AuditTypes'
    BY <2>1, <2>2 DEF AuditInv, AuditTypes
  <2>4. \A d \in Consumers : \A e \in 1..Handled(d)' : e \in 1..Handled(d) \/ <<d, e>> \in dropped'
    <3>1. record[c] \in Nat
      BY DEF AuditInv, AuditTypes
    <3> QED BY <2>1, <2>2, <3>1
  <2>5. \A d \in Consumers : saw'[d] \in {saw[d], 0, Audit!Latest}
    BY <2>2 DEF AuditInv, AuditTypes
  <2> QED BY <2>1, <2>2, <2>3, <2>4, <2>5, AuditUnchangedRows
<1>5. ASSUME NEW c \in Consumers, Audit!Commit(c) PROVE AuditInv'
  <2>1. AuditTypes'
    BY <1>5 DEF AuditInv, AuditTypes, Audit!Commit
  <2>2. \A d \in Consumers : Handled(d)' = Handled(d)
    BY <1>5, <2>1 DEF AuditInv, AuditTypes, Audit!Commit, Handled
  <2>3. Handled(c) = polled[c]
    BY <1>5 DEF Audit!Commit, Handled
  <2>4. AuditOrder'
    <3> SUFFICES ASSUME NEW d \in Consumers PROVE AuditOrder!(d)'
      BY DEF AuditOrder
    <3>1. polled' = polled /\ topic' = topic /\ record' = record
      BY <1>5 DEF Audit!Commit
    <3>2. offset'[d] <= Handled(d) /\ Handled(d) <= polled[d] /\ polled[d] <= Len(topic[d])
      BY <1>5, <2>3, ZenonT(60) DEF AuditInv, AuditTypes, AuditOrder, Audit!Commit
    <3>3. stage'[d] \in {"insert", "trigger"} => record[d] \in 1..polled[d]
      BY <1>5 DEF AuditInv, AuditTypes, AuditOrder, Audit!Commit
    <3> QED BY <2>2, <3>1, <3>2, <3>3
  <2>5. /\ rows' = rows /\ serial' = serial /\ dropped \subseteq dropped'
        /\ \A d \in Consumers : saw'[d] = saw[d]
    BY <1>5 DEF Audit!Commit
  <2> QED BY <2>1, <2>2, <2>4, <2>5, AuditUnchangedRows
<1>6. ASSUME NEW c \in Consumers, Audit!Kill(c) PROVE AuditInv'
  <2>1. AuditTypes'
    BY <1>6 DEF AuditInv, AuditTypes, Audit!Kill, Audit!Resumes
  <2>2. \A d \in Consumers : Handled(d)' = IF d = c THEN offset[c] ELSE Handled(d)
    BY <1>6, <2>1 DEF AuditInv, AuditTypes, Audit!Kill, Audit!Resumes, Handled
  <2>3. offset[c] <= Handled(c) /\ Handled(c) <= polled[c] /\ polled[c] <= Len(topic[c])
        /\ offset[c] \in Nat /\ polled[c] \in Nat /\ Handled(c) \in Int /\ Len(topic[c]) \in Nat
    BY DEF AuditInv, AuditTypes, AuditOrder, Handled
  <2>4. AuditOrder'
    <3> SUFFICES ASSUME NEW d \in Consumers PROVE AuditOrder!(d)'
      BY DEF AuditOrder
    <3>1. CASE d = c
      BY <1>6, <2>2, <2>3, <3>1 DEF AuditInv, AuditTypes, Audit!Kill, Audit!Resumes
    <3>2. CASE d # c
      BY <1>6, <2>2, <3>2 DEF AuditInv, AuditTypes, AuditOrder, Audit!Kill
    <3> QED BY <3>1, <3>2
  <2>5. /\ rows' = rows /\ serial' = serial /\ dropped \subseteq dropped'
        /\ \A d \in Consumers : saw'[d] \in {saw[d], 0}
    BY <1>6 DEF AuditInv, AuditTypes, Audit!Kill
  <2>6. \A d \in Consumers : \A e \in 1..Handled(d)' : e \in 1..Handled(d)
    BY <2>2, <2>3
  <2> QED BY <2>1, <2>4, <2>5, <2>6, AuditUnchangedRows
<1> QED BY <1>1, <1>2, <1>3, <1>4, <1>5, <1>6 DEF Audit!Next

(* The invariant says what TrailSound promises.                            *)
LEMMA AuditTrail == AuditInv => Audit!TrailSound
<1> SUFFICES ASSUME AuditInv PROVE Audit!TrailSound
  OBVIOUS
<1>1. ASSUME NEW c \in Consumers, NEW e \in 1..offset[c] PROVE Kept(c, e)
  <2>1. offset[c] \in Nat /\ Handled(c) \in Int /\ offset[c] <= Handled(c)
    BY DEF AuditInv, AuditTypes, AuditOrder, Handled
  <2>2. e \in 1..Handled(c)
    BY <2>1
  <2> QED BY <2>2 DEF AuditInv
<1> QED BY <1>1 DEF Audit!TrailSound, Kept, AuditInv

-----------------------------------------------------------------------------
(* Platform operations: what the calls under way have done so far.         *)

PlatformTypes ==
  /\ rule \in [NoiseRules -> [status : Platform!Statuses,
                              pull : (NoiseRules \X Platform!Purposes) \cup {Platform!NoPull}]]
  /\ branches \subseteq NoiseRules \X Platform!Purposes
  /\ webhook \subseteq NoiseRules \X Platform!Purposes
  /\ pulls \in [NoiseRules \X Platform!Purposes -> {"none", "open", "merged"}]
  /\ file \in NoiseRules \cup {Platform!NoRule}
  /\ handler \in [Calls -> [for : Platform!Purposes \cup {"none"},
                            rule : NoiseRules \cup {Platform!NoRule},
                            saw : Platform!Statuses,
                            at : {"idle", "read", "branched", "opened"}]]
  /\ signed \in BOOLEAN

(* A branch is made once, so that nobody opens a pull request again.       *)
BranchesOnce ==
  /\ \A p \in NoiseRules \X Platform!Purposes : pulls[p] # "none" => p \in branches
  /\ \A p \in webhook : pulls[p] = "merged"
  /\ \A c \in Calls :
       /\ handler[c].at # "idle" => Platform!Pull(c) \in NoiseRules \X Platform!Purposes
       /\ handler[c].at \in {"branched", "opened"} => Platform!Pull(c) \in branches
       /\ handler[c].at = "branched" => pulls[Platform!Pull(c)] = "none"
       /\ handler[c].at = "opened" => pulls[Platform!Pull(c)] # "none"
       /\ handler[c].at # "idle" /\ handler[c].for = "approve" => handler[c].saw = "draft"
  /\ \A c, d \in Calls : c # d /\ handler[c].at = "branched" /\ handler[d].at = "branched"
       => Platform!Pull(c) # Platform!Pull(d)

PlatformInv ==
  PlatformTypes /\ BranchesOnce /\ Platform!RulesByReview /\ Platform!ActsOnConsent

(* The rows, the pull requests and the file stand while a call moves on.   *)
LEMMA MovesOn ==
  ASSUME PlatformTypes, NEW c \in Calls,
         NEW to \in {"idle", "read", "branched", "opened"}, Platform!Moves(c, to)
  PROVE  /\ handler' \in [Calls -> [for : Platform!Purposes \cup {"none"},
                                    rule : NoiseRules \cup {Platform!NoRule},
                                    saw : Platform!Statuses,
                                    at : {"idle", "read", "branched", "opened"}]]
         /\ handler'[c].at = to
         /\ to # "idle" => /\ Platform!Pull(c)' = Platform!Pull(c)
                           /\ handler'[c].saw = handler[c].saw
                           /\ handler'[c].for = handler[c].for
         /\ \A d \in Calls : d # c => handler'[d] = handler[d] /\ Platform!Pull(d)' = Platform!Pull(d)
<1>1. \A d \in Calls : d # c => handler'[d] = handler[d]
  BY DEF Platform!Moves, PlatformTypes
<1>2. CASE to = "idle"
  <2>1. handler'[c] = Platform!Idle
    BY <1>2 DEF Platform!Moves, PlatformTypes
  <2> QED BY <1>1, <1>2, <2>1 DEF Platform!Moves, PlatformTypes, Platform!Idle,
              Platform!Statuses, Platform!Pull, Platform!NoRule
<1>3. CASE to # "idle"
  <2>1. handler'[c] = [handler[c] EXCEPT !.at = to]
    BY <1>3 DEF Platform!Moves, PlatformTypes
  <2> QED BY <1>1, <1>3, <2>1 DEF Platform!Moves, PlatformTypes, Platform!Pull
<1> QED BY <1>2, <1>3

(* A handler reads its rule.                                               *)
LEMMA BeginStep ==
  ASSUME PlatformInv, NEW c \in Calls, NEW for \in Platform!Purposes, NEW r \in NoiseRules,
         Platform!Begin(c, for, r)
  PROVE  PlatformTypes' /\ BranchesOnce' /\ Platform!RulesByReview'
<1> DEFINE new == [for |-> for, rule |-> r, saw |-> rule[r].status, at |-> "read"]
<1>1. /\ handler' = [handler EXCEPT ![c] = new]
      /\ UNCHANGED <<rule, branches, pulls, file, webhook, overtaken, withdrawn, signed>>
      /\ rule[r].status \in Platform!Readable(for)
  BY DEF Platform!Begin
<1>2. PlatformTypes'
  <2>1. rule[r].status \in Platform!Statuses
    BY DEF PlatformInv, PlatformTypes
  <2> QED BY <1>1, <2>1 DEF PlatformInv, PlatformTypes
<1>3. handler'[c] = new /\ Platform!Pull(c)' = <<r, for>>
  BY <1>1 DEF PlatformInv, PlatformTypes, Platform!Pull
<1>4. \A d \in Calls : d # c => handler'[d] = handler[d] /\ Platform!Pull(d)' = Platform!Pull(d)
  BY <1>1 DEF PlatformInv, PlatformTypes, Platform!Pull
<1>5. for = "approve" => rule[r].status = "draft"
  BY <1>1 DEF Platform!Readable
<1>6. BranchesOnce'
  BY <1>1, <1>3, <1>4, <1>5 DEF PlatformInv, BranchesOnce
<1>7. Platform!RulesByReview'
  BY <1>1 DEF PlatformInv, Platform!RulesByReview
<1> QED BY <1>2, <1>6, <1>7

(* The branch of a rule and purpose is made.                               *)
LEMMA CreateRefStep ==
  ASSUME PlatformInv, NEW c \in Calls, Platform!CreateRef(c)
  PROVE  PlatformTypes' /\ BranchesOnce' /\ Platform!RulesByReview'
<1>1. /\ UNCHANGED <<rule, pulls, file, webhook, overtaken, withdrawn, signed>>
      /\ handler[c].at = "read" /\ Platform!Pull(c) \in NoiseRules \X Platform!Purposes
  BY DEF Platform!CreateRef, PlatformInv, BranchesOnce
<1>2. Platform!RulesByReview'
  BY <1>1 DEF PlatformInv, Platform!RulesByReview
<1>3. CASE Platform!Pull(c) \notin branches /\ branches' = branches \cup {Platform!Pull(c)}
           /\ Platform!Moves(c, "branched")
  <2>1. /\ handler'[c].at = "branched" /\ Platform!Pull(c)' = Platform!Pull(c)
        /\ handler'[c].saw = handler[c].saw /\ handler'[c].for = handler[c].for
        /\ \A d \in Calls : d # c => handler'[d] = handler[d] /\ Platform!Pull(d)' = Platform!Pull(d)
    BY <1>3, MovesOn DEF PlatformInv
  <2>2. PlatformTypes'
    BY <1>1, <1>3, MovesOn DEF PlatformInv, PlatformTypes
  <2>3. BranchesOnce'
    BY <1>1, <1>3, <2>1 DEF PlatformInv, BranchesOnce
  <2> QED BY <1>2, <2>2, <2>3
<1>4. CASE branches' = branches /\ Platform!Moves(c, "idle")
  <2>1. /\ handler'[c].at = "idle"
        /\ \A d \in Calls : d # c => handler'[d] = handler[d] /\ Platform!Pull(d)' = Platform!Pull(d)
    BY <1>4, MovesOn DEF PlatformInv
  <2>2. PlatformTypes'
    BY <1>1, <1>4, MovesOn DEF PlatformInv, PlatformTypes
  <2>3. BranchesOnce'
    BY <1>1, <1>4, <2>1 DEF PlatformInv, BranchesOnce
  <2> QED BY <1>2, <2>2, <2>3
<1> QED BY <1>3, <1>4 DEF Platform!CreateRef

(* Its pull request is opened, or fails to.                                *)
LEMMA CreatePRStep ==
  ASSUME PlatformInv, NEW c \in Calls, Platform!CreatePR(c)
  PROVE  PlatformTypes' /\ BranchesOnce' /\ Platform!RulesByReview'
<1>1. /\ UNCHANGED <<rule, branches, file, webhook, overtaken, withdrawn, signed>>
      /\ handler[c].at = "branched" /\ Platform!Pull(c) \in NoiseRules \X Platform!Purposes
      /\ Platform!Pull(c) \in branches /\ pulls[Platform!Pull(c)] = "none"
  BY DEF Platform!CreatePR, PlatformInv, BranchesOnce
<1>2. CASE pulls' = [pulls EXCEPT ![Platform!Pull(c)] = "open"] /\ Platform!Moves(c, "opened")
  <2> DEFINE p == Platform!Pull(c)
  <2>1. /\ handler'[c].at = "opened" /\ Platform!Pull(c)' = Platform!Pull(c)
        /\ handler'[c].saw = handler[c].saw /\ handler'[c].for = handler[c].for
        /\ \A d \in Calls : d # c => handler'[d] = handler[d] /\ Platform!Pull(d)' = Platform!Pull(d)
    BY <1>2, MovesOn DEF PlatformInv
  <2>2. pulls'[p] = "open" /\ \A q \in NoiseRules \X Platform!Purposes : q # p => pulls'[q] = pulls[q]
    BY <1>1, <1>2 DEF PlatformInv, PlatformTypes
  <2>3. PlatformTypes'
    BY <1>1, <1>2, MovesOn DEF PlatformInv, PlatformTypes
  <2>4. BranchesOnce'
    <3>1. \A q \in NoiseRules \X Platform!Purposes : pulls'[q] # "none" => q \in branches
      BY <1>1, <2>2 DEF PlatformInv, BranchesOnce
    <3>2. \A q \in webhook : pulls'[q] = "merged"
      BY <1>1, <2>2 DEF PlatformInv, BranchesOnce, PlatformTypes
    <3>3. ASSUME NEW d \in Calls, d # c
          PROVE  /\ handler[d].at = "branched" => pulls'[Platform!Pull(d)] = "none"
                 /\ handler[d].at = "opened" => pulls'[Platform!Pull(d)] # "none"
      BY <1>1, <2>2, <3>3 DEF PlatformInv, BranchesOnce
    <3> QED BY <1>1, <2>1, <2>2, <3>1, <3>2, <3>3 DEF PlatformInv, BranchesOnce
  <2>5. Platform!RulesByReview'
    <3>1. \A q \in NoiseRules \X Platform!Purposes :
            /\ pulls[q] = "merged" => pulls'[q] = "merged"
            /\ pulls[q] # "none" => pulls'[q] # "none"
      BY <1>1, <2>2
    <3>2. \A r \in NoiseRules : rule[r].pull # Platform!NoPull
                                => rule[r].pull \in NoiseRules \X Platform!Purposes
      BY DEF PlatformInv, PlatformTypes
    <3>3. "approve" \in Platform!Purposes /\ Platform!NoPull \notin NoiseRules \X Platform!Purposes
      BY DEF Platform!Purposes, Platform!NoPull
    <3>4. \A r \in NoiseRules : <<r, "approve">> \in NoiseRules \X Platform!Purposes
      BY <3>3
    <3>5. file # Platform!NoRule => file \in NoiseRules
      BY DEF PlatformInv, PlatformTypes
    <3> QED BY <1>1, <3>1, <3>2, <3>3, <3>4, <3>5 DEF PlatformInv, Platform!RulesByReview
  <2> QED BY <2>3, <2>4, <2>5
<1>3. CASE pulls' = pulls /\ Platform!Moves(c, "idle")
  <2>1. /\ handler'[c].at = "idle"
        /\ \A d \in Calls : d # c => handler'[d] = handler[d] /\ Platform!Pull(d)' = Platform!Pull(d)
    BY <1>3, MovesOn DEF PlatformInv
  <2>2. PlatformTypes'
    BY <1>1, <1>3, MovesOn DEF PlatformInv, PlatformTypes
  <2>3. BranchesOnce'
    BY <1>1, <1>3, <2>1 DEF PlatformInv, BranchesOnce
  <2>4. Platform!RulesByReview'
    BY <1>1, <1>3 DEF PlatformInv, Platform!RulesByReview
  <2> QED BY <2>2, <2>3, <2>4
<1> QED BY <1>2, <1>3 DEF Platform!CreatePR

(* The row is updated by its id, whatever it has become.                   *)
LEMMA UpdateStep ==
  ASSUME PlatformInv, NEW c \in Calls, Platform!Update(c)
  PROVE  PlatformTypes' /\ BranchesOnce' /\ Platform!RulesByReview'
<1> DEFINE r == handler[c].rule
           p == Platform!Pull(c)
<1>1. /\ UNCHANGED <<branches, pulls, file, webhook, signed>>
      /\ handler[c].at = "opened" /\ Platform!Moves(c, "idle")
      /\ p \in NoiseRules \X Platform!Purposes /\ pulls[p] # "none"
      /\ handler[c].for = "approve" => handler[c].saw = "draft"
  BY DEF Platform!Update, PlatformInv, BranchesOnce
<1>2. p = <<r, handler[c].for>> /\ r \in NoiseRules
  BY <1>1 DEF Platform!Pull
<1>3. /\ handler'[c].at = "idle"
      /\ \A d \in Calls : d # c => handler'[d] = handler[d] /\ Platform!Pull(d)' = Platform!Pull(d)
  BY <1>1, MovesOn DEF PlatformInv
<1>4. BranchesOnce'
  BY <1>1, <1>3 DEF PlatformInv, BranchesOnce
<1>5. CASE /\ handler[c].for = "approve"
           /\ rule' = [rule EXCEPT ![r] = [status |-> "active", pull |-> p]]
           /\ overtaken' = IF handler[c].saw = "draft" /\ r \in withdrawn
                            THEN overtaken \cup {r} ELSE overtaken
           /\ UNCHANGED withdrawn
  <2>1. /\ rule'[r] = [status |-> "active", pull |-> p]
        /\ \A q \in NoiseRules : q # r => rule'[q] = rule[q]
    BY <1>2, <1>5 DEF PlatformInv, PlatformTypes
  <2>2. rule' \in [NoiseRules -> [status : Platform!Statuses,
                     pull : (NoiseRules \X Platform!Purposes) \cup {Platform!NoPull}]]
    <3>1. [status |-> "active", pull |-> p] \in [status : Platform!Statuses,
                     pull : (NoiseRules \X Platform!Purposes) \cup {Platform!NoPull}]
      BY <1>1 DEF Platform!Statuses
    <3> HIDE DEF p
    <3> QED BY <1>2, <1>5, <3>1 DEF PlatformInv, PlatformTypes
  <2>3. PlatformTypes'
    BY <1>1, <2>2, MovesOn DEF PlatformInv, PlatformTypes
  <2>4. p = <<r, "approve">>
    BY <1>2, <1>5
  <2>5. r \notin withdrawn' \ overtaken' /\ overtaken \subseteq overtaken'
    BY <1>1, <1>5
  <2>6. Platform!RulesByReview'
    <3> SUFFICES ASSUME NEW q \in NoiseRules
                 PROVE  /\ rule'[q].status \in {"active", "promoted"} => rule'[q].pull = <<q, "approve">>
                        /\ rule'[q].status = "promoted" /\ signed => pulls[rule'[q].pull] = "merged"
                        /\ rule'[q].pull # Platform!NoPull => pulls[rule'[q].pull] # "none"
                        /\ q \in withdrawn' \ overtaken' => rule'[q].status = "revoked"
      BY <1>1 DEF PlatformInv, Platform!RulesByReview
    <3>1. CASE q = r
      BY <1>1, <2>1, <2>4, <2>5, <3>1
    <3>2. CASE q # r
      BY <1>5, <2>1, <2>5, <3>2 DEF PlatformInv, Platform!RulesByReview
    <3> QED BY <3>1, <3>2
  <2> QED BY <1>4, <2>3, <2>6
<1>6. CASE /\ handler[c].for = "revoke"
           /\ rule' = [rule EXCEPT ![r].status = "revoked"]
           /\ withdrawn' = withdrawn \cup {r}
           /\ UNCHANGED overtaken
  <2>1. /\ rule'[r] = [rule[r] EXCEPT !.status = "revoked"]
        /\ \A q \in NoiseRules : q # r => rule'[q] = rule[q]
    BY <1>2, <1>6 DEF PlatformInv, PlatformTypes
  <2>2. PlatformTypes'
    BY <1>1, <1>2, <1>6, MovesOn DEF PlatformInv, PlatformTypes, Platform!Statuses
  <2>3. rule'[r].status = "revoked" /\ rule'[r].pull = rule[r].pull
    BY <1>2, <2>1 DEF PlatformInv, PlatformTypes
  <2>4. Platform!RulesByReview'
    BY <1>1, <1>6, <2>1, <2>3 DEF PlatformInv, Platform!RulesByReview
  <2> QED BY <1>4, <2>2, <2>4
<1>7. CASE UNCHANGED <<rule, overtaken, withdrawn>>
  <2>1. PlatformTypes'
    BY <1>1, <1>7, MovesOn DEF PlatformInv, PlatformTypes
  <2> QED BY <1>1, <1>4, <1>7, <2>1 DEF PlatformInv, Platform!RulesByReview
<1> QED BY <1>5, <1>6, <1>7 DEF Platform!Update

(* Somebody merges or closes a pull request.                               *)
LEMMA MergeStep ==
  ASSUME PlatformInv, NEW p \in NoiseRules \X Platform!Purposes, Platform!Merge(p)
  PROVE  PlatformTypes' /\ BranchesOnce' /\ Platform!RulesByReview'
<1>1. /\ pulls[p] = "open" /\ pulls' = [pulls EXCEPT ![p] = "merged"]
      /\ file' = IF p[2] = "approve" THEN p[1] ELSE Platform!NoRule
      /\ webhook' \in {webhook, webhook \cup {p}}
      /\ UNCHANGED <<rule, branches, handler, overtaken, withdrawn, signed>>
  BY DEF Platform!Merge
<1>2. pulls'[p] = "merged" /\ \A q \in NoiseRules \X Platform!Purposes : q # p => pulls'[q] = pulls[q]
  BY <1>1 DEF PlatformInv, PlatformTypes
<1>3. PlatformTypes'
  BY <1>1 DEF PlatformInv, PlatformTypes, Platform!NoRule
<1>4. BranchesOnce'
  BY <1>1, <1>2 DEF PlatformInv, PlatformTypes, BranchesOnce, Platform!Pull
<1>5. \A q \in NoiseRules \X Platform!Purposes :
        /\ pulls[q] = "merged" => pulls'[q] = "merged"
        /\ pulls[q] # "none" => pulls'[q] # "none"
  BY <1>2
<1>6. \A r \in NoiseRules : rule[r].pull # Platform!NoPull
                            => rule[r].pull \in NoiseRules \X Platform!Purposes
  BY DEF PlatformInv, PlatformTypes
<1>7. /\ Platform!NoPull \notin NoiseRules \X Platform!Purposes
      /\ \A r \in NoiseRules : <<r, "approve">> \in NoiseRules \X Platform!Purposes
  BY DEF Platform!Purposes, Platform!NoPull
<1>8. file' # Platform!NoRule => p = <<file', "approve">>
  BY <1>1
<1>9. Platform!RulesByReview'
  BY <1>1, <1>2, <1>5, <1>6, <1>7, <1>8 DEF PlatformInv, Platform!RulesByReview
<1> QED BY <1>3, <1>4, <1>9

(* The webhook tells of it, late or twice.                                 *)
LEMMA WebhookStep ==
  ASSUME PlatformInv, NEW p \in NoiseRules \X Platform!Purposes, Platform!GithubWebhook(p)
  PROVE  PlatformTypes' /\ BranchesOnce' /\ Platform!RulesByReview'
<1>1. /\ signed => p \in webhook
      /\ webhook' \in {webhook, webhook \ {p}}
      /\ rule' = [r \in NoiseRules |-> IF Platform!Promotes(r, p)
                                       THEN [rule[r] EXCEPT !.status = "promoted"] ELSE rule[r]]
      /\ UNCHANGED <<branches, pulls, file, handler, overtaken, withdrawn, signed>>
  BY DEF Platform!GithubWebhook, Platform!Told
<1>2. signed => pulls[p] = "merged"
  BY <1>1 DEF PlatformInv, BranchesOnce
<1>3. \A r \in NoiseRules :
        /\ rule'[r].pull = rule[r].pull
        /\ \/ rule'[r].status = rule[r].status
           \/ rule'[r].status = "promoted" /\ rule[r].status = "active" /\ rule[r].pull = p
  BY <1>1 DEF PlatformInv, PlatformTypes, Platform!Promotes
<1>4. PlatformTypes'
  BY <1>1, SMTT(60) DEF PlatformInv, PlatformTypes, Platform!Statuses
<1>5. BranchesOnce'
  BY <1>1 DEF PlatformInv, BranchesOnce, Platform!Pull
<1>6. Platform!RulesByReview'
  <2> SUFFICES ASSUME NEW q \in NoiseRules
               PROVE  /\ rule'[q].status \in {"active", "promoted"} => rule'[q].pull = <<q, "approve">>
                      /\ rule'[q].status = "promoted" /\ signed => pulls[rule'[q].pull] = "merged"
                      /\ rule'[q].pull # Platform!NoPull => pulls[rule'[q].pull] # "none"
                      /\ q \in withdrawn \ overtaken => rule'[q].status = "revoked"
    BY <1>1 DEF PlatformInv, Platform!RulesByReview
  <2>1. /\ rule[q].status \in {"active", "promoted"} => rule[q].pull = <<q, "approve">>
        /\ rule[q].status = "promoted" /\ signed => pulls[rule[q].pull] = "merged"
        /\ rule[q].pull # Platform!NoPull => pulls[rule[q].pull] # "none"
        /\ q \in withdrawn \ overtaken => rule[q].status = "revoked"
    BY DEF PlatformInv, Platform!RulesByReview
  <2> QED BY <1>2, <1>3, <2>1
<1> QED BY <1>4, <1>5, <1>6

(* A rule is proposed.                                                     *)
LEMMA ProposeStep ==
  ASSUME PlatformInv, NEW r \in NoiseRules, Platform!Propose(r)
  PROVE  PlatformTypes' /\ BranchesOnce' /\ Platform!RulesByReview'
<1>1. /\ rule[r].status = "none" /\ rule' = [rule EXCEPT ![r].status = "draft"]
      /\ UNCHANGED <<branches, pulls, file, webhook, handler, overtaken, withdrawn, signed>>
  BY DEF Platform!Propose
<1>2. /\ rule'[r].status = "draft" /\ rule'[r].pull = rule[r].pull
      /\ \A q \in NoiseRules : q # r => rule'[q] = rule[q]
  BY <1>1 DEF PlatformInv, PlatformTypes
<1>3. PlatformTypes'
  BY <1>1 DEF PlatformInv, PlatformTypes, Platform!Statuses
<1>4. BranchesOnce'
  BY <1>1 DEF PlatformInv, BranchesOnce, Platform!Pull
<1>5. Platform!RulesByReview'
  BY <1>1, <1>2 DEF PlatformInv, Platform!RulesByReview
<1> QED BY <1>3, <1>4, <1>5

(* Every step of platform operations keeps it.                             *)
LEMMA PlatformStep ==
  ASSUME PlatformInv, Platform!Next PROVE PlatformInv'
<1>1. CASE Platform!Review /\ acted' = Platform!Nothing
  <2>1. Platform!ActsOnConsent'
    BY <1>1 DEF Platform!ActsOnConsent, Platform!Nothing
  <2>2. PlatformTypes' /\ BranchesOnce' /\ Platform!RulesByReview'
    BY <1>1, ProposeStep, BeginStep, CreateRefStep, CreatePRStep, UpdateStep, MergeStep,
       WebhookStep DEF Platform!Review
  <2> QED BY <2>1, <2>2 DEF PlatformInv
<1>2. ASSUME NEW e \in Platform!Endpoints, NEW risk \in Platform!Decisions(e), NEW denied \in BOOLEAN,
             Platform!Mutate(e, risk, denied)
      PROVE  PlatformInv'
  <2>1. Platform!ActsOnConsent'
    BY <1>2 DEF Platform!Mutate, Platform!ActsOnConsent, Platform!Waits, Platform!Decisions
  <2>2. PlatformTypes' /\ BranchesOnce' /\ Platform!RulesByReview'
    BY <1>2 DEF Platform!Mutate, PlatformInv, PlatformTypes, BranchesOnce,
                Platform!RulesByReview, Platform!Pull
  <2> QED BY <2>1, <2>2 DEF PlatformInv
<1> QED BY <1>1, <1>2 DEF Platform!Next

(* Nothing is proposed at first.                                           *)
LEMMA PlatformInit == Platform!Init => PlatformInv
<1> SUFFICES ASSUME Platform!Init PROVE PlatformInv
  OBVIOUS
<1>1. PlatformTypes
  BY DEF Platform!Init, PlatformTypes, Platform!Statuses, Platform!Idle, Platform!NoRule
<1>2. BranchesOnce
  BY DEF Platform!Init, BranchesOnce, Platform!Idle
<1>3. Platform!RulesByReview /\ Platform!ActsOnConsent
  BY DEF Platform!Init, Platform!RulesByReview, Platform!ActsOnConsent, Platform!Nothing
<1> QED BY <1>1, <1>2, <1>3 DEF PlatformInv

-----------------------------------------------------------------------------
(* Deployment policies: pure functions of the hour, the approvals and the  *)
(* rules.                                                                  *)

Rule == [priority : Int, decision : {"allow", "requires_approval", "deny"},
         on : SUBSET Policies!Envs, breaks : SUBSET Policies!Envs]

FreezeWindow == [env : STRING, from : (0..6) \X (0..(HoursADay - 1)),
                 to : (0..6) \X (0..(HoursADay - 1))]

PolicyData ==
  /\ HoursADay \in Nat \ {0}
  /\ Freezes \in Seq(FreezeWindow)
  /\ RuleSets \subseteq Seq(Rule)

Release == [image : {"none"} \cup {d.image : d \in Deployments}, expires : Nat]

PolicyInv ==
  /\ weekHour \in 0..(Policies!Week - 1)
  /\ rules \in Seq(Rule)
  /\ released \in [Policies!Envs -> Release]

(* A week has hours.                                                       *)
LEMMA WeekLong ==
  ASSUME PolicyData
  PROVE  Policies!Week \in Nat \ {0} /\ Policies!Week = 7 * HoursADay
BY DEF PolicyData, Policies!Week

(* A set of numbers has a least one.                                       *)
Less == {x \in Nat \X Nat : x[1] < x[2]}

(* A set of natural numbers that is not empty has a least one.             *)
LEMMA LeastOf ==
  ASSUME NEW S \in SUBSET Nat, S # {}
  PROVE  \E i \in S : \A j \in S : i <= j
<1>1. IsWellFoundedOn(Less, Nat)
  BY NatLessThanWellFounded DEF OpToRel, Less
<1>2. \E i \in S : \A j \in S : ~ (<<j, i>> \in Less)
  <2>1. S \subseteq Nat
    OBVIOUS
  <2> QED BY <1>1, <2>1, WFMin, Zenon
<1>3. \A i, j \in Nat : j < i => <<j, i>> \in Less
  BY DEF Less
<1>4. PICK i \in S : \A j \in S : ~ (<<j, i>> \in Less)
  BY <1>2
<1>5. ASSUME NEW j \in S PROVE i <= j
  <2>1. i \in Nat /\ j \in Nat
    OBVIOUS
  <2>2. ~ (j < i)
    BY <1>3, <1>4, <2>1
  <2> QED BY <2>1, <2>2
<1> QED BY <1>5

(* An hour of the week, or one less than a week later, modulo the week.    *)
LEMMA ModWeek ==
  ASSUME NEW W \in Nat \ {0}, NEW x \in Nat, x < 2 * W
  PROVE  x % W = IF x < W THEN x ELSE x - W
OBVIOUS

(* An hour of the week k hours on.                                         *)
LEMMA HourOnward ==
  ASSUME NEW W \in Nat \ {0}, NEW f \in 0..(W - 1), NEW k \in 1..W
  PROVE  (f + k - 1) % W = IF f + k - 1 < W THEN f + k - 1 ELSE f + k - 1 - W
OBVIOUS

(* A day and an hour are an hour of the week.                              *)
LEMMA HourOfWeek ==
  ASSUME PolicyData, NEW t \in (0..6) \X (0..(HoursADay - 1))
  PROVE  Policies!DayHour(t) \in 0..(Policies!Week - 1)
<1>1. HoursADay \in Nat \ {0} /\ t[1] \in 0..6 /\ t[2] \in 0..(HoursADay - 1)
  BY DEF PolicyData
<1>2. t[1] * HoursADay \in 0..(6 * HoursADay)
  <2>1. \/ t[1] = 0 \/ t[1] = 1 \/ t[1] = 2 \/ t[1] = 3 \/ t[1] = 4 \/ t[1] = 5 \/ t[1] = 6
    BY <1>1
  <2> QED BY <1>1, <2>1
<1> QED BY <1>1, <1>2 DEF Policies!DayHour, Policies!Week

(* A freeze holds in the hours from its start to its end, also around the  *)
(* end of the week.                                                        *)
LEMMA WindowsWrap ==
  ASSUME PolicyData, PolicyInv
  PROVE  Policies!FreezesWrap
<1> DEFINE W == Policies!Week
<1>1. W \in Nat \ {0} /\ weekHour \in 0..(W - 1)
  BY WeekLong DEF PolicyInv
<1> SUFFICES ASSUME NEW w \in Policies!ToSet(Freezes)
             PROVE  LET span == (Policies!DayHour(w.to) + W - Policies!DayHour(w.from)) % W
                    IN  Policies!In(w, weekHour)
                        <=> \E k \in 1..span : weekHour = (Policies!DayHour(w.from) + k - 1) % W
  BY Zenon DEF Policies!FreezesWrap
<1> DEFINE f == Policies!DayHour(w.from)
           t == Policies!DayHour(w.to)
           span == (t + W - f) % W
<1>2. f \in 0..(W - 1) /\ t \in 0..(W - 1)
  <2>1. w \in FreezeWindow
    <3>1. PICK i \in DOMAIN Freezes : w = Freezes[i]
      BY DEF Policies!ToSet
    <3> QED BY <3>1 DEF PolicyData
  <2> QED BY <2>1, HourOfWeek DEF FreezeWindow
<1>3. Policies!In(w, weekHour) <=> IF f <= t THEN f <= weekHour /\ weekHour < t
                                   ELSE f <= weekHour \/ weekHour < t
  BY DEF Policies!In
<1> HIDE DEF W, f, t
<1>4. span = IF f <= t THEN t - f ELSE t + W - f
  <2>1. t + W - f \in Nat /\ t + W - f < 2 * W
    BY <1>1, <1>2
  <2>2. span = IF t + W - f < W THEN t + W - f ELSE (t + W - f) - W
    BY <1>1, <2>1, ModWeek
  <2> QED BY <1>1, <1>2, <2>2
<1>5. span \in 0..(W - 1)
  BY <1>1, <1>2, <1>4
<1> HIDE DEF span
<1>6. \A k \in 1..span : (f + k - 1) % W = IF f + k - 1 < W THEN f + k - 1 ELSE f + k - 1 - W
  <2>1. \A k \in 1..span : k \in 1..W
    BY <1>1, <1>5
  <2> QED BY <1>1, <1>2, <2>1, HourOnward
<1>7. ASSUME NEW k \in 1..span, weekHour = (f + k - 1) % W PROVE Policies!In(w, weekHour)
  BY <1>1, <1>2, <1>3, <1>4, <1>6, <1>7
<1>8. ASSUME Policies!In(w, weekHour) PROVE \E k \in 1..span : weekHour = (f + k - 1) % W
  <2>1. CASE f <= weekHour
    <3>1. weekHour - f + 1 \in 1..span /\ f + (weekHour - f + 1) - 1 = weekHour
      BY <1>1, <1>2, <1>3, <1>4, <1>8, <2>1
    <3> QED BY <1>1, <1>6, <3>1
  <2>2. CASE weekHour < f
    <3>1. weekHour + W - f + 1 \in 1..span /\ f + (weekHour + W - f + 1) - 1 = weekHour + W
      BY <1>1, <1>2, <1>3, <1>4, <1>8, <2>2
    <3>2. (f + (weekHour + W - f + 1) - 1) % W = weekHour
      BY <1>1, <1>6, <3>1
    <3> QED BY <3>1, <3>2
  <2> QED BY <1>1, <1>2, <2>1, <2>2
<1> QED BY <1>7, <1>8 DEF span, f, t, W

(* What the most restrictive of some decisions is, and that it is the      *)
(* first of its kind.                                                      *)
LEMMA MostRestrictiveOf ==
  ASSUME NEW n \in Nat, NEW all, DOMAIN all = 1..n
  PROVE  LET m == Policies!MostRestrictive(all)
             says(x) == \E i \in 1..n : all[i].decision = x
         IN  /\ says("deny") => m.decision = "deny"
             /\ ~says("deny") /\ says("requires_approval") => m.decision = "requires_approval"
             /\ ~says("deny") /\ ~says("requires_approval") => m.decision = "allow"
             /\ says(m.decision) => \E i \in 1..n :
                  /\ m = all[i]
                  /\ \A j \in 1..n : all[j].decision = m.decision => i <= j
<1> DEFINE those(x) == {i \in DOMAIN all : all[i].decision = x}
           first(x)  == CHOOSE i \in those(x) : \A j \in those(x) : i <= j
           m == Policies!MostRestrictive(all)
<1>1. ASSUME NEW x, those(x) # {}
      PROVE  first(x) \in those(x) /\ \A j \in those(x) : first(x) <= j
  <2>1. those(x) \in SUBSET Nat
    OBVIOUS
  <2> HIDE DEF those
  <2>2. \E i \in those(x) : \A j \in those(x) : i <= j
    BY <1>1, <2>1, LeastOf
  <2> QED BY <2>2
<1>2. m = CASE those("deny") # {} -> all[first("deny")]
            [] those("deny") = {} /\ those("requires_approval") # {}
                 -> all[first("requires_approval")]
            [] OTHER -> IF those("allow") = {} THEN Policies!Says("none", "allow")
                        ELSE all[first("allow")]
  BY Zenon DEF Policies!MostRestrictive
<1>3. ASSUME NEW x, those(x) # {}, m = all[first(x)]
      PROVE  /\ m.decision = x
             /\ \E i \in 1..n : m = all[i] /\ \A j \in 1..n : all[j].decision = m.decision => i <= j
  <2>1. first(x) \in 1..n /\ all[first(x)].decision = x
    BY <1>1, <1>3
  <2>2. \A j \in 1..n : all[j].decision = x => first(x) <= j
    BY <1>1, <1>3
  <2> HIDE DEF first
  <2> QED BY <1>3, <2>1, <2>2
<1>4. \A x : those(x) # {} <=> \E i \in 1..n : all[i].decision = x
  OBVIOUS
<1>5. Policies!Says("none", "allow").decision = "allow"
  BY DEF Policies!Says
<1> HIDE DEF those, first, m
<1>6. CASE those("deny") # {}
  BY <1>2, <1>3, <1>4, <1>6 DEF m
<1>7. CASE those("deny") = {} /\ those("requires_approval") # {}
  BY <1>2, <1>3, <1>4, <1>7 DEF m
<1>8. CASE those("deny") = {} /\ those("requires_approval") = {} /\ those("allow") # {}
  BY <1>2, <1>3, <1>4, <1>8 DEF m
<1>9. CASE those("deny") = {} /\ those("requires_approval") = {} /\ those("allow") = {}
  BY <1>2, <1>4, <1>5, <1>9 DEF m
<1> QED BY <1>6, <1>7, <1>8, <1>9

(* The rules in their order: who stands before a rule, and a sequence that *)
(* takes every number of 1..n once takes them all.                         *)
LEMMA SameCardinality == \A S : Policies!Cardinality(S) = Cardinality(S)
BY Zenon DEF Policies!Cardinality, Cardinality

(* A map of 1..n into itself that takes no number twice takes them all.    *)
LEMMA OnceIsAll ==
  ASSUME NEW n \in Nat, NEW p \in [1..n -> 1..n],
         \A i, j \in 1..n : p[i] = p[j] => i = j
  PROVE  \A k \in 1..n : \E i \in 1..n : p[i] = k
<1>1. p \in Injection(1..n, 1..n)
  BY DEF Injection, IsInjective
<1>2. IsFiniteSet(1..n)
  BY FS_Interval
<1>3. p \in Surjection(1..n, 1..n)
  BY <1>1, <1>2, FS_Injection, Zenon
<1> QED BY <1>3 DEF Surjection

(* There are n numbers from 1 to n.                                        *)
LEMMA CountTo == \A n \in Nat : IsFiniteSet(1..n) /\ Cardinality(1..n) = n
BY FS_Interval

Before(rs, i) == {j \in DOMAIN rs : \/ rs[j].priority > rs[i].priority
                                    \/ rs[j].priority = rs[i].priority /\ j < i}

(* What stands in a list of rules is a rule.                               *)
LEMMA RuleAt ==
  ASSUME NEW rs \in Seq(Rule)
  PROVE  /\ Len(rs) \in Nat /\ DOMAIN rs = 1..Len(rs)
         /\ \A i \in DOMAIN rs :
              /\ rs[i] \in Rule /\ rs[i].priority \in Int
              /\ rs[i].decision \in {"allow", "requires_approval", "deny"}
<1>1. Len(rs) \in Nat /\ DOMAIN rs = 1..Len(rs) /\ \A i \in DOMAIN rs : rs[i] \in Rule
  OBVIOUS
<1>2. \A r \in Rule : r.priority \in Int /\ r.decision \in {"allow", "requires_approval", "deny"}
  BY DEF Rule
<1> QED BY <1>1, <1>2, Zenon

(* Fewer rules stand before one than there are.                            *)
LEMMA BeforeCounts ==
  ASSUME NEW rs \in Seq(Rule), NEW i \in DOMAIN rs
  PROVE  /\ IsFiniteSet(Before(rs, i))
         /\ Cardinality(Before(rs, i)) \in 0..(Len(rs) - 1)
<1>1. i \in 1..Len(rs) /\ Len(rs) \in Nat /\ DOMAIN rs = 1..Len(rs)
  BY RuleAt
<1>2. rs[i].priority \in Int
  BY RuleAt
<1>3. Before(rs, i) \subseteq 1..Len(rs) \ {i}
  BY <1>1, <1>2 DEF Before
<1>4. IsFiniteSet(1..Len(rs)) /\ Cardinality(1..Len(rs)) = Len(rs)
  BY <1>1, CountTo
<1>5. IsFiniteSet(1..Len(rs) \ {i}) /\ Cardinality(1..Len(rs) \ {i}) = Len(rs) - 1
  <2>1. /\ IsFiniteSet(1..Len(rs) \ {i})
        /\ Cardinality(1..Len(rs) \ {i}) =
             IF i \in 1..Len(rs) THEN Cardinality(1..Len(rs)) - 1 ELSE Cardinality(1..Len(rs))
    BY <1>4, FS_RemoveElement, Zenon
  <2> QED BY <1>1, <1>4, <2>1, Zenon
<1>6. /\ IsFiniteSet(Before(rs, i))
      /\ Cardinality(Before(rs, i)) <= Cardinality(1..Len(rs) \ {i})
  BY <1>3, <1>5, FS_Subset, Zenon
<1>7. Cardinality(Before(rs, i)) \in Nat
  BY <1>6, FS_CardinalityType, Zenon
<1> QED BY <1>1, <1>5, <1>6, <1>7

(* More stand before a rule than before one that stands before it.         *)
LEMMA BeforeGrows ==
  ASSUME NEW rs \in Seq(Rule), NEW i \in DOMAIN rs, NEW j \in Before(rs, i)
  PROVE  Cardinality(Before(rs, j)) < Cardinality(Before(rs, i))
<1>1. j \in DOMAIN rs /\ DOMAIN rs = 1..Len(rs) /\ Len(rs) \in Nat
  BY RuleAt DEF Before
<1>2. \A k \in DOMAIN rs : rs[k].priority \in Int
  BY RuleAt
<1>3. Before(rs, j) \subseteq Before(rs, i) /\ j \notin Before(rs, j)
  BY <1>1, <1>2 DEF Before
<1>4. IsFiniteSet(Before(rs, i)) /\ IsFiniteSet(Before(rs, j))
  BY <1>1, BeforeCounts
<1>5. Cardinality(Before(rs, j)) <= Cardinality(Before(rs, i))
      /\ Cardinality(Before(rs, j)) # Cardinality(Before(rs, i))
  BY <1>3, <1>4, FS_Subset, Zenon
<1>6. Cardinality(Before(rs, j)) \in Nat /\ Cardinality(Before(rs, i)) \in Nat
  BY <1>4, FS_CardinalityType, Zenon
<1> QED BY <1>5, <1>6

(* NewEngine puts every rule at one place, the rules of a higher priority  *)
(* first.                                                                  *)
LEMMA NewEngineSorts ==
  ASSUME NEW rs \in Seq(Rule)
  PROVE  \E spot \in [DOMAIN rs -> DOMAIN rs] :
           /\ Policies!NewEngine(rs) = [k \in DOMAIN rs |-> rs[spot[k]]]
           /\ \A i \in DOMAIN rs : \E k \in DOMAIN rs : spot[k] = i
           /\ \A k, l \in DOMAIN rs : k < l => rs[spot[k]].priority >= rs[spot[l]].priority
<1> DEFINE n == Len(rs)
           rank == [i \in 1..n |-> Cardinality(Before(rs, i)) + 1]
           spot == [k \in 1..n |-> CHOOSE i \in 1..n : Cardinality(Before(rs, i)) = k - 1]
<1>1. n \in Nat /\ DOMAIN rs = 1..n /\ \A i \in 1..n : rs[i].priority \in Int
  BY RuleAt
<1>2. Policies!NewEngine(rs) = [k \in DOMAIN rs |-> rs[spot[k]]]
  <2>1. Policies!NewEngine(rs)
          = [k \in DOMAIN rs |-> rs[CHOOSE i \in DOMAIN rs : Cardinality(Before(rs, i)) = k - 1]]
    <3>1. \A i \in DOMAIN rs : Policies!Cardinality(Before(rs, i)) = Cardinality(Before(rs, i))
      BY SameCardinality
    <3>2. Policies!NewEngine(rs)
            = [k \in DOMAIN rs |-> rs[CHOOSE i \in DOMAIN rs :
                                       Policies!Cardinality(Before(rs, i)) = k - 1]]
      BY Zenon DEF Policies!NewEngine, Before
    <3> QED BY <3>1, <3>2, ZenonT(60)
  <2> QED BY <1>1, <2>1
<1>3. rank \in [1..n -> 1..n]
  <2>1. ASSUME NEW i \in 1..n PROVE Cardinality(Before(rs, i)) + 1 \in 1..n
    BY <1>1, BeforeCounts
  <2> QED BY <2>1
<1>4. \A i, j \in 1..n : j \in Before(rs, i) => Cardinality(Before(rs, j)) < Cardinality(Before(rs, i))
  BY <1>1, BeforeGrows
<1>5. \A i \in 1..n : Cardinality(Before(rs, i)) \in Nat
  BY <1>1, BeforeCounts
<1>6. \A i, j \in 1..n : i = j \/ i \in Before(rs, j) \/ j \in Before(rs, i)
  BY <1>1 DEF Before
<1>7. \A i, j \in 1..n : rank[i] = rank[j] => i = j
  BY <1>4, <1>5, <1>6
<1>8. \A k \in 1..n : \E i \in 1..n : rank[i] = k
  <2> HIDE DEF rank
  <2> QED BY <1>1, <1>3, <1>7, OnceIsAll
<1>9. \A k \in 1..n : spot[k] \in 1..n /\ rank[spot[k]] = k
  <2> TAKE k \in 1..n
  <2>1. \E i \in 1..n : Cardinality(Before(rs, i)) = k - 1
    <3>1. PICK i \in 1..n : rank[i] = k
      BY <1>8
    <3>2. Cardinality(Before(rs, i)) + 1 = k
      BY <3>1
    <3> QED BY <1>5, <3>2
  <2>2. spot[k] \in 1..n /\ Cardinality(Before(rs, spot[k])) = k - 1
    BY <2>1
  <2> QED BY <1>1, <2>2
<1>10. spot \in [1..n -> 1..n]
  BY <1>9
<1>11. \A i \in 1..n : spot[rank[i]] = i /\ rank[i] \in 1..n
  <2> HIDE DEF spot, rank
  <2> QED BY <1>3, <1>7, <1>9
<1>12. ASSUME NEW k \in 1..n, NEW l \in 1..n, k < l
       PROVE  rs[spot[k]].priority >= rs[spot[l]].priority
  <2>1. spot[l] \in Before(rs, spot[k]) => rank[spot[l]] < rank[spot[k]]
    <3> HIDE DEF spot
    <3> QED BY <1>4, <1>5, <1>10
  <2> HIDE DEF spot, rank
  <2>2. spot[l] \notin Before(rs, spot[k])
    BY <1>9, <1>12, <2>1
  <2> QED BY <1>1, <1>10, <2>2 DEF Before
<1> HIDE DEF spot, rank, n
<1>13. spot \in [DOMAIN rs -> DOMAIN rs]
  BY <1>1, <1>10
<1>14. \A i \in DOMAIN rs : \E k \in DOMAIN rs : spot[k] = i
  BY <1>1, <1>11, Zenon
<1>15. \A k, l \in DOMAIN rs : k < l => rs[spot[k]].priority >= rs[spot[l]].priority
  BY <1>1, <1>12, Zenon
<1> QED BY <1>2, <1>13, <1>14, <1>15

(* What policy-engine answers: the most restrictive of the rules that      *)
(* hold, and the one of it with the highest priority.                      *)
LEMMA EvaluateOf ==
  ASSUME NEW rs \in Seq(Rule), NEW env
  PROVE  LET m == Policies!Evaluate(rs, env)
             says(x) == \E i \in DOMAIN rs : env \in rs[i].on /\ rs[i].decision = x
         IN  /\ says("deny") => m.decision = "deny"
             /\ ~says("deny") /\ says("requires_approval") => m.decision = "requires_approval"
             /\ ~says("deny") /\ ~says("requires_approval") => m.decision = "allow"
             /\ \A i \in DOMAIN rs : env \in rs[i].on /\ rs[i].decision = m.decision
                                       => rs[i].priority <= m.priority
<1> DEFINE n == Len(rs)
           m == Policies!Evaluate(rs, env)
           says(x) == \E i \in DOMAIN rs : env \in rs[i].on /\ rs[i].decision = x
           sorted == Policies!NewEngine(rs)
           all == [k \in DOMAIN rs |-> IF env \in sorted[k].on THEN sorted[k]
                                       ELSE Policies!Says("condition", "false")]
<1>1. m = Policies!MostRestrictive(all)
  BY Zenon DEF Policies!Evaluate
<1>2. n \in Nat /\ DOMAIN rs = 1..n /\ \A i \in 1..n :
        rs[i].priority \in Int /\ rs[i].decision \in {"allow", "requires_approval", "deny"}
  BY RuleAt
<1>3. PICK spot \in [DOMAIN rs -> DOMAIN rs] :
           /\ sorted = [k \in DOMAIN rs |-> rs[spot[k]]]
           /\ \A i \in DOMAIN rs : \E k \in DOMAIN rs : spot[k] = i
           /\ \A k, l \in DOMAIN rs : k < l => rs[spot[k]].priority >= rs[spot[l]].priority
  BY NewEngineSorts, Zenon
<1>4. \A k \in 1..n : spot[k] \in 1..n /\ sorted[k] = rs[spot[k]]
  BY <1>2, <1>3
<1>5. \A k \in 1..n : /\ env \in rs[spot[k]].on => all[k] = rs[spot[k]]
                      /\ env \notin rs[spot[k]].on => all[k].decision = "false"
  <2> HIDE DEF sorted
  <2> QED BY <1>2, <1>4 DEF Policies!Says
<1>6. DOMAIN all = 1..n
  BY <1>2
<1> HIDE DEF all, sorted, n
<1>7. \A x \in {"allow", "requires_approval", "deny"} :
         says(x) <=> \E k \in 1..n : all[k].decision = x
  <2> TAKE x \in {"allow", "requires_approval", "deny"}
  <2>1. ASSUME NEW i \in 1..n, env \in rs[i].on, rs[i].decision = x
        PROVE  \E k \in 1..n : all[k].decision = x
    <3>1. PICK k \in 1..n : spot[k] = i
      BY <1>2, <1>3
    <3> QED BY <1>5, <2>1, <3>1
  <2>2. ASSUME NEW k \in 1..n, all[k].decision = x PROVE says(x)
    <3>1. env \in rs[spot[k]].on /\ rs[spot[k]].decision = x
      BY <1>5, <2>2
    <3> QED BY <1>2, <1>4, <3>1
  <2> QED BY <1>2, <2>1, <2>2
<1> DEFINE r == Policies!MostRestrictive(all)
           said(x) == \E k \in 1..n : all[k].decision = x
<1>8. /\ said("deny") => r.decision = "deny"
      /\ ~said("deny") /\ said("requires_approval") => r.decision = "requires_approval"
      /\ ~said("deny") /\ ~said("requires_approval") => r.decision = "allow"
      /\ said(r.decision) => \E i \in 1..n :
           /\ r = all[i]
           /\ \A j \in 1..n : all[j].decision = r.decision => i <= j
  BY <1>2, <1>6, MostRestrictiveOf
<1> HIDE DEF m
<1>9. m = r
  BY <1>1
<1> HIDE DEF r
<1>10. ASSUME NEW i \in DOMAIN rs, env \in rs[i].on, rs[i].decision = m.decision
       PROVE  rs[i].priority <= m.priority
  <2>1. PICK k \in 1..n : spot[k] = i
    BY <1>2, <1>3, <1>10
  <2>2. all[k] = rs[i] /\ all[k].decision = m.decision
    BY <1>5, <1>10, <2>1
  <2>3. PICK j \in 1..n : m = all[j] /\ \A l \in 1..n : all[l].decision = m.decision => j <= l
    BY <1>8, <1>9, <2>2
  <2>4. j <= k
    BY <2>2, <2>3
  <2>5. all[j] = rs[spot[j]]
    <3>1. m.decision # "false"
      BY <1>2, <1>10
    <3> QED BY <1>5, <2>3, <3>1
  <2>6. j = k \/ j < k
    BY <1>2, <2>4
  <2>7. CASE j = k
    BY <1>2, <1>10, <2>1, <2>3, <2>5, <2>7
  <2>8. CASE j < k
    <3>1. rs[spot[j]].priority >= rs[spot[k]].priority
      BY <1>2, <1>3, <2>8
    <3>2. rs[spot[j]].priority \in Int /\ rs[spot[k]].priority \in Int
      BY <1>2, <1>4
    <3> QED BY <2>1, <2>3, <2>5, <3>1, <3>2
  <2> QED BY <2>6, <2>7, <2>8
<1>11. /\ says("deny") => m.decision = "deny"
       /\ ~says("deny") /\ says("requires_approval") => m.decision = "requires_approval"
       /\ ~says("deny") /\ ~says("requires_approval") => m.decision = "allow"
  <2> HIDE DEF says, said
  <2>1. /\ says("deny") <=> said("deny")
        /\ says("requires_approval") <=> said("requires_approval")
    BY <1>7 DEF said
  <2> QED BY <1>8, <1>9, <2>1
<1> QED BY <1>10, <1>11 DEF m, says

(* The answer is the same in whatever order the rules were loaded.         *)
LEMMA OrderDoesNotMatter ==
  ASSUME PolicyInv
  PROVE  Policies!OrderIrrelevant
<1>1. Len(rules) \in Nat /\ DOMAIN rules = 1..Len(rules) /\ \A i \in DOMAIN rules : rules[i] \in Rule
  BY RuleAt DEF PolicyInv
<1>2. ASSUME NEW env, NEW p \in Policies!SetToSeqs(DOMAIN rules)
      PROVE  Policies!Evaluate([i \in DOMAIN p |-> rules[p[i]]], env).decision
               = Policies!Evaluate(rules, env).decision
  <2> DEFINE n == Len(rules)
             other == [i \in DOMAIN p |-> rules[p[i]]]
             says(rs, x) == \E i \in DOMAIN rs : env \in rs[i].on /\ rs[i].decision = x
  <2>1. p \in [1..n -> 1..n] /\ \A i, j \in 1..n : p[i] = p[j] => i = j
    <3>1. Policies!Cardinality(DOMAIN rules) = n
      BY <1>1, CountTo, SameCardinality
    <3>2. /\ p \in [1..Policies!Cardinality(DOMAIN rules) -> DOMAIN rules]
          /\ \A i, j \in 1..Policies!Cardinality(DOMAIN rules) : i # j => p[i] # p[j]
      BY Zenon DEF Policies!SetToSeqs
    <3> QED BY <1>1, <3>1, <3>2
  <2>2. \A k \in 1..n : \E i \in 1..n : p[i] = k
    BY <1>1, <2>1, OnceIsAll
  <2>3. DOMAIN other = 1..n /\ \A i \in 1..n : p[i] \in 1..n /\ other[i] = rules[p[i]]
    BY <2>1
  <2>4. other \in Seq(Rule)
    <3>1. other \in [1..n -> Rule]
      BY <1>1, <2>1
    <3> QED BY <1>1, <3>1
  <2> HIDE DEF other
  <2>5. ASSUME NEW x PROVE says(other, x) <=> says(rules, x)
    <3>1. ASSUME says(rules, x) PROVE says(other, x)
      <4>1. PICK i \in 1..n : env \in rules[i].on /\ rules[i].decision = x
        BY <1>1, <3>1
      <4>2. PICK k \in 1..n : p[k] = i
        BY <2>2
      <4> QED BY <2>3, <4>1, <4>2
    <3>2. ASSUME says(other, x) PROVE says(rules, x)
      <4>1. PICK i \in 1..n : env \in other[i].on /\ other[i].decision = x
        BY <2>3, <3>2
      <4> QED BY <1>1, <2>3, <4>1
    <3> QED BY <3>1, <3>2
  <2>6. \A rs \in {rules, other} :
          LET m == Policies!Evaluate(rs, env)
          IN  /\ says(rs, "deny") => m.decision = "deny"
              /\ ~says(rs, "deny") /\ says(rs, "requires_approval")
                   => m.decision = "requires_approval"
              /\ ~says(rs, "deny") /\ ~says(rs, "requires_approval") => m.decision = "allow"
    BY <2>4, EvaluateOf DEF PolicyInv
  <2> HIDE DEF says
  <2>7. Policies!Evaluate(other, env).decision = Policies!Evaluate(rules, env).decision
    BY <2>5, <2>6
  <2> QED BY <2>7 DEF other
<1>3. ASSUME NEW env, NEW i \in DOMAIN rules, env \in rules[i].on,
             rules[i].decision = Policies!Evaluate(rules, env).decision
      PROVE  rules[i].priority <= Policies!Evaluate(rules, env).priority
  BY <1>3, EvaluateOf DEF PolicyInv
<1> QED BY <1>2, <1>3, Zenon DEF Policies!OrderIrrelevant

(* What lets a deployment through: nobody says anything against it.        *)
LEMMA AllowedByAll ==
  ASSUME PolicyInv, NEW d, Policies!Decision(d) = "allow"
  PROVE  /\ engine => /\ rules # Policies!NoRules /\ ~Policies!Fails(rules, d.env)
                      /\ Policies!Evaluate(rules, d.env).decision
                           \notin {"deny", "requires_approval"}
         /\ \A p \in {Policies!requireApprovalProd(d), Policies!freezeWindowPolicy(d),
                      Policies!requireCanary(d), Policies!requireRollbackPlan(d)} :
               p.decision \notin {"deny", "requires_approval"}
<1> DEFINE own == Policies!Policies(d)
           all == Policies!Ask(d)
           asked == Policies!Says("policy-engine", Policies!Evaluate(rules, d.env).decision)
           silent == rules = Policies!NoRules \/ Policies!Fails(rules, d.env)
<1>1. own = <<Policies!requireSignedImage(d), Policies!requireApprovalProd(d),
              Policies!freezeWindowPolicy(d), Policies!requireCanary(d),
              Policies!requireRollbackPlan(d)>>
  BY Zenon DEF Policies!Policies
<1>2. Policies!MostRestrictive(all).decision = "allow"
  BY Zenon DEF Policies!Decision
<1>3. /\ ~engine => all = own
      /\ engine /\ silent => all = Append(own, Policies!Says("policy-engine", "deny"))
      /\ engine /\ ~silent => all = <<asked>> \o own
  <2>1. CASE ~engine
    BY <2>1 DEF Policies!Ask
  <2>2. CASE engine /\ silent
    BY <2>2 DEF Policies!Ask
  <2>3. CASE engine /\ ~silent
    BY <2>3 DEF Policies!Ask
  <2> QED BY <2>1, <2>2, <2>3, Zenon
<1> HIDE DEF own, all, asked, silent
<1>4. ASSUME NEW n \in Nat, DOMAIN all = 1..n
      PROVE  \A i \in 1..n : all[i].decision \notin {"deny", "requires_approval"}
  <2> DEFINE m == Policies!MostRestrictive(all)
             says(x) == \E i \in 1..n : all[i].decision = x
  <2>1. /\ says("deny") => m.decision = "deny"
        /\ ~says("deny") /\ says("requires_approval") => m.decision = "requires_approval"
    BY <1>4, MostRestrictiveOf
  <2> HIDE DEF m
  <2>2. m.decision = "allow"
    BY <1>2 DEF m
  <2> QED BY <2>1, <2>2
<1>5. Len(own) = 5 /\ DOMAIN own = 1..5
  BY <1>1
<1>6. CASE ~engine
  <2>1. /\ DOMAIN all = 1..5 /\ all[2] = Policies!requireApprovalProd(d)
        /\ all[3] = Policies!freezeWindowPolicy(d) /\ all[4] = Policies!requireCanary(d)
        /\ all[5] = Policies!requireRollbackPlan(d)
    BY <1>1, <1>3, <1>5, <1>6
  <2>2. \A i \in 1..5 : all[i].decision \notin {"deny", "requires_approval"}
    BY <1>4, <2>1
  <2> QED BY <1>6, <2>1, <2>2
<1>7. CASE engine
  <2>1. ~silent
    <3> SUFFICES ASSUME silent PROVE FALSE
      OBVIOUS
    <3>1. all = Append(own, Policies!Says("policy-engine", "deny"))
      BY <1>3, <1>7
    <3>2. DOMAIN all = 1..6 /\ all[6] = Policies!Says("policy-engine", "deny")
      BY <1>1, <3>1
    <3>3. all[6].decision = "deny"
      BY <3>2 DEF Policies!Says
    <3> QED BY <1>4, <3>2, <3>3
  <2>2. all = <<asked>> \o own
    BY <1>3, <1>7, <2>1
  <2>3. /\ DOMAIN all = 1..6 /\ all[1] = asked /\ all[3] = Policies!requireApprovalProd(d)
        /\ all[4] = Policies!freezeWindowPolicy(d) /\ all[5] = Policies!requireCanary(d)
        /\ all[6] = Policies!requireRollbackPlan(d)
    BY <1>1, <2>2
  <2>4. asked.decision = Policies!Evaluate(rules, d.env).decision
    BY DEF asked, Policies!Says
  <2>5. \A i \in 1..6 : all[i].decision \notin {"deny", "requires_approval"}
    BY <1>4, <2>3
  <2> QED BY <2>1, <2>3, <2>4, <2>5 DEF silent
<1> QED BY <1>6, <1>7

(* What is let through to production is approved, outside every freeze,    *)
(* and spoken against by no rule of an engine that is asked.               *)
LEMMA ProdIsGuarded ==
  ASSUME PolicyData, PolicyInv
  PROVE  Policies!ProdGuarded
<1> SUFFICES ASSUME NEW d \in Deployments, Policies!Decision(d) = "allow"
             PROVE  /\ engine =>
                         /\ rules # Policies!NoRules
                         /\ \A i \in DOMAIN rules :
                              d.env \in rules[i].on => rules[i].decision = "allow"
                    /\ Policies!Fold(d.env) = "prod" =>
                         /\ released[d.env] # Policies!NoApproval
                         /\ \/ released[d.env].image = d.image
                            \/ Policies!NoDigest \in {released[d.env].image, d.image}
                         /\ \/ released[d.env].expires = Policies!Never
                            \/ weekHour <= released[d.env].expires
                         /\ Policies!isHighCriticality(d.criticality) => d.plan /\ d.strategy # "rolling"
                         /\ \A w \in Policies!ToSet(Freezes) :
                              Policies!Fold(w.env) \in {"", "prod"} => ~Policies!In(w, weekHour)
  BY Zenon DEF Policies!ProdGuarded
<1>1. /\ engine => /\ rules # Policies!NoRules
                   /\ Policies!Evaluate(rules, d.env).decision \notin {"deny", "requires_approval"}
      /\ Policies!requireApprovalProd(d).decision \notin {"deny", "requires_approval"}
      /\ Policies!freezeWindowPolicy(d).decision \notin {"deny", "requires_approval"}
      /\ Policies!requireCanary(d).decision \notin {"deny", "requires_approval"}
      /\ Policies!requireRollbackPlan(d).decision \notin {"deny", "requires_approval"}
  BY AllowedByAll
<1>2. ASSUME engine, NEW i \in DOMAIN rules, d.env \in rules[i].on
      PROVE  rules[i].decision = "allow"
  <2> DEFINE m == Policies!Evaluate(rules, d.env)
             says(x) == \E k \in DOMAIN rules : d.env \in rules[k].on /\ rules[k].decision = x
  <2>1. /\ says("deny") => m.decision = "deny"
        /\ ~says("deny") /\ says("requires_approval") => m.decision = "requires_approval"
    BY EvaluateOf DEF PolicyInv
  <2>2. ~says("deny") /\ ~says("requires_approval")
    BY <1>1, <1>2, <2>1
  <2>3. rules[i].decision \in {"allow", "requires_approval", "deny"}
    BY RuleAt DEF PolicyInv
  <2> QED BY <1>2, <2>2, <2>3
<1>3. ASSUME Policies!Fold(d.env) = "prod"
      PROVE  /\ released[d.env] # Policies!NoApproval
             /\ ~Policies!Mismatch(released[d.env], d) /\ ~Policies!Expired(released[d.env])
  BY <1>1, <1>3 DEF Policies!requireApprovalProd, Policies!Says
<1>4. ASSUME Policies!Fold(d.env) = "prod", Policies!isHighCriticality(d.criticality)
      PROVE  d.plan /\ d.strategy # "rolling"
  <2>1. d.plan
    BY <1>1, <1>4 DEF Policies!requireRollbackPlan, Policies!Says
  <2>2. d.strategy \in {"canary", "blue_green"}
    BY <1>1, <1>4 DEF Policies!requireCanary, Policies!Says
  <2> QED BY <2>1, <2>2
<1>5. ASSUME Policies!Fold(d.env) = "prod", NEW w \in Policies!ToSet(Freezes),
             Policies!Fold(w.env) \in {"", "prod"}
      PROVE  ~Policies!In(w, weekHour)
  <2>1. ~ \E v \in Policies!ToSet(Freezes) :
            Policies!Fold(v.env) \in {"", Policies!Fold(d.env)} /\ Policies!In(v, weekHour)
    BY <1>1 DEF Policies!freezeWindowPolicy, Policies!Says
  <2> QED BY <1>5, <2>1
<1>6. ASSUME Policies!Fold(d.env) = "prod"
      PROVE  /\ \/ released[d.env].image = d.image
                \/ Policies!NoDigest \in {released[d.env].image, d.image}
             /\ released[d.env].expires = Policies!Never \/ weekHour <= released[d.env].expires
  <2>1. weekHour \in Nat
    BY WeekLong DEF PolicyInv
  <2>2. released[d.env].expires \in Nat
    BY DEF PolicyInv, Release, Policies!Envs
  <2> QED BY <1>3, <1>6, <2>1, <2>2 DEF Policies!Mismatch, Policies!Expired
<1> QED BY <1>1, <1>2, <1>3, <1>4, <1>5, <1>6

(* A more critical change passes all the gates of a less critical one.     *)
LEMMA MoreCriticalMoreGates == Policies!GatesGrow
<1> SUFFICES ASSUME NEW c1 \in Criticalities, NEW c2 \in Criticalities, NEW g \in SDLCGates
             PROVE  /\ /\ Policies!Rank(Policies!Criticality(c1)) <= Policies!Rank(Policies!Criticality(c2))
                       /\ Policies!Rank(Policies!Criticality(c1)) # 0
                       => (Policies!Outcome(g, c1) # "skipped" => Policies!Outcome(g, c2) # "skipped")
                    /\ Policies!Rank(Policies!Criticality(c1)) = 0
                       => (Policies!Outcome(g, c1) = "skipped" <=> Policies!Outcome(g, "medium") = "skipped")
  BY Zenon DEF Policies!GatesGrow
<1>1. \A c : Policies!Outcome(g, c) = "skipped" <=> ~Policies!AtLeast(Policies!Criticality(c), g.min)
  BY DEF Policies!Outcome
<1>2. \A c : Policies!Rank(c) \in 0..4
  BY DEF Policies!Rank
<1>3. \A c : Policies!Fold(Policies!Fold(c)) = Policies!Fold(c)
  BY DEF Policies!Fold
<1>4. \A c : Policies!Fold(Policies!Criticality(c)) = Policies!Criticality(c)
  BY <1>3 DEF Policies!Criticality, Policies!Fold
<1>5. Policies!Rank(Policies!Criticality("medium")) = 2
  BY DEF Policies!Rank, Policies!Criticality, Policies!Fold
<1>6. \A c : Policies!AtLeast(Policies!Criticality(c), g.min)
               <=> (IF Policies!Rank(Policies!Criticality(c)) = 0 THEN 2
                    ELSE Policies!Rank(Policies!Criticality(c))) >= Policies!Rank(Policies!Fold(g.min))
  BY <1>4 DEF Policies!AtLeast
<1> QED BY <1>1, <1>2, <1>5, <1>6

(* The hour is one of the week at first.                                   *)
LEMMA PolicyInit ==
  ASSUME PolicyData, Policies!Init
  PROVE  PolicyInv
<1>1. Policies!NoApproval \in Release
  BY DEF Policies!NoApproval, Release
<1> QED BY <1>1, WeekLong DEF Policies!Init, PolicyInv, Policies!NoRules

(* It stays one, and approvals stay numbered.                              *)
LEMMA PolicyStep ==
  ASSUME PolicyData, PolicyInv, Policies!Next
  PROVE  PolicyInv'
<1>1. CASE Policies!Tick
  BY <1>1, WeekLong DEF Policies!Tick, PolicyInv
<1>2. ASSUME NEW d \in Deployments, NEW e \in 0..Policies!Never, Policies!Approve(d, e)
      PROVE  PolicyInv'
  <2>1. [image |-> d.image, expires |-> e] \in Release
    BY WeekLong DEF Release, Policies!Never
  <2> QED BY <1>2, <2>1 DEF Policies!Approve, PolicyInv, Policies!Week
<1>3. ASSUME NEW rs \in RuleSets \cup {Policies!NoRules}, Policies!Load(rs)
      PROVE  PolicyInv'
  <2>1. rs \in Seq(Rule)
    <3>1. << >> \in Seq(Rule)
      OBVIOUS
    <3> QED BY <3>1 DEF PolicyData, Policies!NoRules
  <2> QED BY <1>3, <2>1 DEF Policies!Load, PolicyInv, Policies!Week
<1> QED BY <1>1, <1>2, <1>3 DEF Policies!Next

(* What the policies promise of any request.                               *)
LEMMA PoliciesHold ==
  ASSUME PolicyData, PolicyInv
  PROVE  Policies!PoliciesSound
BY WindowsWrap, OrderDoesNotMatter, ProdIsGuarded, MoreCriticalMoreGates, Zenon
   DEF Policies!PoliciesSound

-----------------------------------------------------------------------------
(* For each service: its invariant holds at first, every step keeps it,    *)
(* and it implies what the service promises.                               *)
LEMMA ControlAlways ==
  ASSUME WellNamed
  PROVE  (Control!Init => JInv) /\ (JInv /\ [Control!Next]_(Control!control) => JInv') /\ (JInv => Control!AccessSound)
BY JInvInit, JInvStep, JInvSound

(* What Services_proofs takes of approvals: the invariant holds at first,  *)
(* every step keeps it, and it implies what is promised.                   *)
LEMMA ApprovalAlways ==
  /\ Approval!Init => ApprovalInv
  /\ ApprovalInv /\ [Approval!Next]_(Approval!approvals) => ApprovalInv'
  /\ ApprovalInv => Approval!OneOutcome
<1>1. Approval!Init => ApprovalInv
  BY DEF Approval!Init, ApprovalInv, Approval!OneOutcome
<1>2. ApprovalInv /\ UNCHANGED Approval!approvals => ApprovalInv'
  BY DEF Approval!approvals, ApprovalInv, Approval!OneOutcome
<1> QED BY <1>1, <1>2, ApprovalStep DEF ApprovalInv

(* What Services_proofs takes of overrides of policy-engine: the invariant *)
(* holds at first, every step keeps it, and it implies what is promised.   *)
LEMMA OverrideAlways ==
  /\ Override!Init => OverrideInv
  /\ OverrideInv /\ [Override!Next]_(Override!overrides) => OverrideInv'
  /\ OverrideInv => Override!EndsOnce
<1>1. Override!Init => OverrideInv
  BY DEF Override!Init, OverrideInv, Override!EndsOnce, Override!EndsTold,
         Override!Terminal, Override!States
<1>2. OverrideInv /\ UNCHANGED Override!overrides => OverrideInv'
  BY DEF Override!overrides, OverrideInv, Override!EndsOnce, Override!EndsTold
<1> QED BY <1>1, <1>2, OverrideStep DEF OverrideInv

(* What Services_proofs takes of audit, whose events carry times of the    *)
(* clock: the invariant holds at first, every step keeps it, and it        *)
(* implies what is promised.                                               *)
LEMMA AuditAlways ==
  ASSUME Partitions \subseteq [Consumers -> Seq(Times)]
  PROVE  /\ Audit!Init => AuditInv
         /\ AuditInv /\ [Audit!Next]_(Audit!audit) => AuditInv'
         /\ AuditInv => Audit!TrailSound
<1>1. ASSUME Audit!Init PROVE AuditInv
  <2>1. AuditTypes
    BY <1>1 DEF Audit!Init, AuditTypes
  <2>2. \A c \in Consumers : Handled(c) = 0
    BY <1>1 DEF Audit!Init, Handled
  <2>3. AuditOrder
    BY <1>1, <2>1, <2>2 DEF Audit!Init, AuditOrder, AuditTypes
  <2> QED BY <1>1, <2>1, <2>2, <2>3 DEF Audit!Init, AuditInv, AuditNumbers, Audit!ChainIsValid
<1>2. AuditInv /\ UNCHANGED Audit!audit => AuditInv'
  BY DEF Audit!audit, AuditInv, AuditTypes, AuditOrder, AuditNumbers, Handled, Kept,
         Audit!ChainIsValid
<1> QED BY <1>1, <1>2, AuditStep, AuditTrail

(* What Services_proofs takes of platform operations: the invariant holds  *)
(* at first, every step keeps it, and it implies what is promised.         *)
LEMMA PlatformAlways ==
  /\ Platform!Init => PlatformInv
  /\ PlatformInv /\ [Platform!Next]_(Platform!platform) => PlatformInv'
  /\ PlatformInv => Platform!RulesByReview /\ Platform!ActsOnConsent
<1>1. ASSUME PlatformInv, UNCHANGED Platform!platform PROVE PlatformInv'
  <2>1. PlatformTypes' /\ BranchesOnce'
    BY <1>1 DEF Platform!platform, PlatformInv, PlatformTypes, BranchesOnce, Platform!Pull
  <2>2. Platform!RulesByReview' /\ Platform!ActsOnConsent'
    BY <1>1 DEF Platform!platform, PlatformInv, Platform!RulesByReview, Platform!ActsOnConsent
  <2> QED BY <2>1, <2>2 DEF PlatformInv
<1> QED BY <1>1, PlatformInit, PlatformStep DEF PlatformInv

(* What Services_proofs takes of deployment policies: the invariant holds  *)
(* at first, every step keeps it, and it implies what is promised.         *)
LEMMA PolicyAlways ==
  ASSUME PolicyData
  PROVE  /\ Policies!Init => PolicyInv
         /\ PolicyInv /\ [Policies!Next]_(Policies!gate) => PolicyInv'
         /\ PolicyInv => Policies!PoliciesSound
<1>1. PolicyInv /\ UNCHANGED Policies!gate => PolicyInv'
  BY DEF Policies!gate, PolicyInv
<1> QED BY <1>1, PolicyInit, PolicyStep, PoliciesHold

-----------------------------------------------------------------------------
(* Gateways: what a relay has read is what it has written and still        *)
(* holds; a call is relayed only after it was signed.                      *)
RelayState == [read : Nat, ch : Seq(Nat), eof : BOOLEAN, out : Seq(Nat)]

GatewayTypes ==
  /\ pc \in [Calls -> {"none", "gates", "signed", "relay", "denied", "ok", "error"}]
  /\ kid \in [Calls -> Nat]
  /\ count \in Nat /\ through \in Nat /\ current \in Nat \ {0}
  /\ relay \in [Calls -> RelayState]

Relayed ==
  \A k \in Calls :
    /\ pc[k] \in {"none", "gates", "signed"} => relay[k] = Gateway!Idle
    /\ relay[k].out \o relay[k].ch = Gateway!Numbers(relay[k].read)
    /\ relay[k].eof => relay[k].read = Length
    /\ pc[k] = "ok" /\ relay[k].eof => relay[k].ch = <<>>

KeysKept ==
  /\ previous = current - 1
  /\ \A k \in Calls : kid[k] <= current

SecretsUsed ==
  \A k \in Calls \cap secret : pc[k] \in {"signed", "relay", "ok", "error"}

GatewayInv ==
  /\ GatewayTypes
  /\ through <= count /\ through <= Limit
  /\ KeysKept
  /\ secret \subseteq Calls /\ SecretsUsed
  /\ Relayed

(* The end of a call changes nothing of what it relayed.                   *)
LEMMA GatewaySound ==
  ASSUME GatewayInv PROVE Gateway!GatewaysSound
<1>1. \A k \in Calls : kid[k] # 0 /\ current <= kid[k] + 1 => kid[k] \in Gateway!JWKS
  BY DEF GatewayInv, GatewayTypes, KeysKept, Gateway!JWKS
<1>2. ASSUME NEW k \in Calls, pc[k] = "ok", relay[k].eof
      PROVE  relay[k].out = Gateway!Numbers(Length)
  <2>1. relay[k].ch = <<>> /\ relay[k].out \o relay[k].ch = Gateway!Numbers(Length)
    BY <1>2 DEF GatewayInv, Relayed
  <2>2. relay[k].out \in Seq(Nat)
    BY DEF GatewayInv, GatewayTypes, RelayState
  <2>3. relay[k].out \o <<>> = relay[k].out
    BY <2>2
  <2> QED BY <2>1, <2>3
<1> QED BY <1>1, <1>2 DEF GatewayInv, SecretsUsed, Relayed, Gateway!GatewaysSound

(* One call moves on and nothing else: its relay stands, unless it begins. *)
LEMMA CallMoves ==
  ASSUME GatewayInv, NEW k \in Calls,
         NEW to \in {"gates", "signed", "relay", "denied", "ok", "error"},
         pc' = [pc EXCEPT ![k] = to],
         kid' = kid \/ kid' = [kid EXCEPT ![k] = 0] \/ kid' = [kid EXCEPT ![k] = current],
         UNCHANGED <<current, previous, secret, relay>>,
         count' \in Nat, through' \in Nat, through' <= count', through' <= Limit,
         k \in secret => to \in {"signed", "relay", "ok", "error"},
         to \in {"gates", "signed"} => pc[k] \in {"none", "gates", "signed"},
         to = "ok" /\ relay[k].eof => relay[k].ch = <<>>
  PROVE  GatewayInv'
<1>1. GatewayTypes'
  BY DEF GatewayInv, GatewayTypes
<1>2. KeysKept'
  BY DEF GatewayInv, GatewayTypes, KeysKept
<1>3. \A j \in Calls : j # k => pc'[j] = pc[j]
  BY DEF GatewayInv, GatewayTypes
<1>4. pc'[k] = to
  BY DEF GatewayInv, GatewayTypes
<1>5. SecretsUsed'
  BY <1>3, <1>4 DEF GatewayInv, SecretsUsed
<1>6. Relayed'
  <2> SUFFICES ASSUME NEW j \in Calls
               PROVE  /\ pc'[j] \in {"none", "gates", "signed"} => relay[j] = Gateway!Idle
                      /\ pc'[j] = "ok" /\ relay[j].eof => relay[j].ch = <<>>
    BY DEF GatewayInv, Relayed
  <2>1. CASE j = k
    BY <1>4, <2>1 DEF GatewayInv, Relayed
  <2>2. CASE j # k
    BY <1>3, <2>2 DEF GatewayInv, Relayed
  <2> QED BY <2>1, <2>2
<1> QED BY <1>1, <1>2, <1>5, <1>6 DEF GatewayInv

(* One relay moves on, and keeps the order of what it read.                *)
LEMMA RelayMoves ==
  ASSUME GatewayInv, NEW k \in Calls, NEW r \in RelayState,
         pc[k] = "relay", relay' = [relay EXCEPT ![k] = r],
         r.out \o r.ch = Gateway!Numbers(r.read), r.eof => r.read = Length,
         UNCHANGED <<pc, kid, count, through, current, previous, secret>>
  PROVE  GatewayInv'
<1>1. GatewayTypes'
  BY DEF GatewayInv, GatewayTypes
<1>2. KeysKept' /\ SecretsUsed'
  BY DEF GatewayInv, KeysKept, SecretsUsed
<1>3. \A j \in Calls : relay'[j] = IF j = k THEN r ELSE relay[j]
  BY DEF GatewayInv, GatewayTypes
<1>4. Relayed'
  <2> SUFFICES ASSUME NEW j \in Calls
               PROVE  /\ pc[j] \in {"none", "gates", "signed"} => relay'[j] = Gateway!Idle
                      /\ relay'[j].out \o relay'[j].ch = Gateway!Numbers(relay'[j].read)
                      /\ relay'[j].eof => relay'[j].read = Length
                      /\ pc[j] = "ok" /\ relay'[j].eof => relay'[j].ch = <<>>
    BY Zenon DEF Relayed, Gateway!Numbers, Gateway!Idle
  <2>1. CASE j = k
    BY <1>3, <2>1
  <2>2. CASE j # k
    BY <1>3, <2>2, ZenonT(60) DEF GatewayInv, Relayed
  <2> QED BY <2>1, <2>2
<1> QED BY <1>1, <1>2, <1>4 DEF GatewayInv

(* No call moves on: the counts and the keys may.                          *)
LEMMA CallsStay ==
  ASSUME GatewayInv, UNCHANGED <<pc, kid, relay, secret>>,
         count' \in Nat, through' \in Nat, through' <= count', through' <= Limit,
         \/ UNCHANGED <<current, previous>>
         \/ current' = current + 1 /\ previous' = current
  PROVE  GatewayInv'
<1>1. GatewayTypes' /\ KeysKept'
  BY DEF GatewayInv, GatewayTypes, KeysKept
<1>2. SecretsUsed' /\ Relayed'
  BY DEF GatewayInv, SecretsUsed, Relayed
<1> QED BY <1>1, <1>2 DEF GatewayInv

(* streamSSE reads the next event after those it has read, and writes the  *)
(* oldest of those it holds.                                               *)
LEMMA AppendLast ==
  ASSUME NEW a \in Seq(Nat), NEW b \in Seq(Nat), NEW x \in Nat
  PROVE  Append(b, x) \in Seq(Nat) /\ a \o Append(b, x) = Append(a \o b, x)
OBVIOUS

(* What is read goes behind what was read.                                 *)
LEMMA ReadNext ==
  ASSUME NEW r \in RelayState, Gateway!Room(r), r.out \o r.ch = Gateway!Numbers(r.read)
  PROVE  /\ Gateway!Push(r) \in Seq(Nat)
         /\ r.out \o Gateway!Push(r) = Gateway!Numbers(r.read + 1)
<1> DEFINE n == r.read
<1>1. n \in Nat /\ r.ch \in Seq(Nat) /\ r.out \in Seq(Nat)
  BY DEF RelayState
<1>2. Gateway!Push(r) = Append(r.ch, n + 1)
  BY DEF Gateway!Push, Gateway!Room
<1>3. /\ Append(r.ch, n + 1) \in Seq(Nat)
      /\ r.out \o Append(r.ch, n + 1) = Append(r.out \o r.ch, n + 1)
  BY <1>1, n + 1 \in Nat, AppendLast
<1>4. Append(Gateway!Numbers(n), n + 1) = Gateway!Numbers(n + 1)
  <2>1. Gateway!Numbers(n) \in Seq(Nat) /\ Len(Gateway!Numbers(n)) = n
        /\ \A i \in 1..n : Gateway!Numbers(n)[i] = i
    BY <1>1 DEF Gateway!Numbers
  <2>2. Gateway!Numbers(n + 1) \in Seq(Nat) /\ Len(Gateway!Numbers(n + 1)) = n + 1
        /\ \A i \in 1..(n + 1) : Gateway!Numbers(n + 1)[i] = i
    BY <1>1 DEF Gateway!Numbers
  <2>3. DOMAIN Append(Gateway!Numbers(n), n + 1) = 1..(n + 1)
        /\ \A i \in 1..(n + 1) : Append(Gateway!Numbers(n), n + 1)[i] = i
    BY <1>1, <2>1
  <2> QED BY <1>1, <2>3 DEF Gateway!Numbers
<1> HIDE DEF n
<1> QED BY <1>2, <1>3, <1>4 DEF n

(* The oldest event leaves the channel for the wire.                       *)
LEMMA WriteOldest ==
  ASSUME NEW a \in Seq(Nat), NEW b \in Seq(Nat), b # <<>>
  PROVE  Append(a, Head(b)) \in Seq(Nat) /\ Tail(b) \in Seq(Nat)
         /\ Append(a, Head(b)) \o Tail(b) = a \o b
BY SMTT(60)

(* Calls, windows, rotations and relays keep it.                           *)
LEMMA GatewayStep ==
  ASSUME Limit \in Nat, GatewayInv, [Gateway!Next]_(Gateway!gateways)
  PROVE  GatewayInv'
<1>1. ASSUME NEW k \in Calls, NEW d, Gateway!Arrive(k, d) PROVE GatewayInv'
  <2>1. k \notin secret
    BY <1>1 DEF Gateway!Arrive, GatewayInv, SecretsUsed
  <2>2. UNCHANGED <<kid, count, through, current, previous, secret, relay>>
        /\ pc' = [pc EXCEPT ![k] = "gates"] /\ pc[k] = "none"
    BY <1>1 DEF Gateway!Arrive
  <2>3. count' \in Nat /\ through' \in Nat /\ through' <= count' /\ through' <= Limit
    BY <2>2 DEF GatewayInv, GatewayTypes
  <2> QED BY <2>1, <2>2, <2>3, CallMoves
<1>2. ASSUME NEW k \in Calls, Gateway!Allow(k) \/ Gateway!FailOpen(k) \/ Gateway!Ask(k)
      PROVE  GatewayInv'
  <2>1. /\ UNCHANGED <<kid, current, previous, secret, relay>> /\ pc[k] = "gates"
        /\ pc' = pc \/ pc' = [pc EXCEPT ![k] = "denied"]
    BY <1>2
       DEF Gateway!Allow, Gateway!FailOpen, Gateway!Ask, Gateway!Goes, Gateway!Ends, Gateway!At
  <2>2. count' \in Nat /\ through' \in Nat /\ through' <= count' /\ through' <= Limit
    <3>1. CASE Gateway!Allow(k)
      BY <3>1 DEF Gateway!Allow, Gateway!Full, GatewayInv, GatewayTypes
    <3>2. CASE Gateway!FailOpen(k)
      BY <3>2 DEF Gateway!FailOpen, GatewayInv, GatewayTypes
    <3>3. CASE Gateway!Ask(k)
      BY <3>3 DEF Gateway!Ask, GatewayInv, GatewayTypes
    <3> QED BY <1>2, <3>1, <3>2, <3>3
  <2>3. k \notin secret
    BY <2>1 DEF GatewayInv, SecretsUsed
  <2>4. CASE pc' = pc
    BY <2>1, <2>2, <2>4, CallsStay
  <2>5. CASE pc' = [pc EXCEPT ![k] = "denied"]
    BY <2>1, <2>2, <2>3, <2>5, CallMoves
  <2> QED BY <2>1, <2>4, <2>5
<1>3. ASSUME NEW k \in Calls, Gateway!Sign(k) \/ Gateway!FetchFails(k) \/ Gateway!Forward(k)
      PROVE  GatewayInv'
  <2>1. UNCHANGED <<count, through, current, previous, secret, relay>>
    BY <1>3 DEF Gateway!Sign, Gateway!FetchFails, Gateway!Forward
  <2>2. count' \in Nat /\ through' \in Nat /\ through' <= count' /\ through' <= Limit
    BY <2>1 DEF GatewayInv, GatewayTypes
  <2>3. CASE Gateway!Sign(k)
    BY <2>1, <2>2, <2>3, CallMoves DEF Gateway!Sign, Gateway!Through
  <2>4. CASE Gateway!FetchFails(k)
    BY <2>1, <2>2, <2>4, CallMoves DEF Gateway!FetchFails, Gateway!Ends
  <2>5. CASE Gateway!Forward(k)
    BY <2>1, <2>2, <2>5, CallMoves DEF Gateway!Forward
  <2> QED BY <1>3, <2>3, <2>4, <2>5
<1>4. ASSUME NEW k \in Calls, Gateway!Answer(k) \/ Gateway!Drained(k) \/ Gateway!Break(k)
      PROVE  GatewayInv'
  <2>1. /\ UNCHANGED <<count, through, current, previous, secret, relay>>
        /\ kid' = [kid EXCEPT ![k] = 0]
        /\ \E to \in {"ok", "error"} : pc' = [pc EXCEPT ![k] = to]
    BY <1>4 DEF Gateway!Answer, Gateway!Drained, Gateway!Break, Gateway!Ends
  <2>2. count' \in Nat /\ through' \in Nat /\ through' <= count' /\ through' <= Limit
    BY <2>1 DEF GatewayInv, GatewayTypes
  <2>3. CASE Gateway!Break(k)
    BY <2>1, <2>2, <2>3, CallMoves DEF Gateway!Break, Gateway!Ends
  <2>4. CASE Gateway!Answer(k)
    <3>0. pc[k] \in {"gates", "signed"}
      BY <2>4 DEF Gateway!Answer, Gateway!Through
    <3>2. relay[k] = Gateway!Idle
      BY <3>0 DEF GatewayInv, Relayed
    <3>1. ~relay[k].eof
      BY <3>2 DEF Gateway!Idle
    <3> QED BY <2>1, <2>2, <3>1, <3>0, CallMoves
  <2>5. CASE Gateway!Drained(k)
    BY <2>1, <2>2, <2>5, CallMoves DEF Gateway!Drained
  <2> QED BY <1>4, <2>3, <2>4, <2>5
<1>5. ASSUME NEW k \in Calls, Gateway!Fetch(k) PROVE GatewayInv'
  BY <1>5 DEF Gateway!Fetch, GatewayInv, GatewayTypes, KeysKept, SecretsUsed, Relayed
<1>6. ASSUME NEW k \in Calls, Gateway!Read(k) \/ Gateway!EndOfStream(k) \/ Gateway!Write(k)
      PROVE  GatewayInv'
  <2> DEFINE s == relay[k]
  <2>1. /\ UNCHANGED <<pc, kid, count, through, current, previous, secret>>
        /\ pc[k] = "relay"
    BY <1>6 DEF Gateway!Read, Gateway!EndOfStream, Gateway!Write
  <2>2. s \in RelayState /\ s.out \o s.ch = Gateway!Numbers(s.read) /\ (s.eof => s.read = Length)
    BY DEF GatewayInv, GatewayTypes, Relayed
  <2>3. ASSUME NEW r \in RelayState, relay' = [relay EXCEPT ![k] = r],
               r.out \o r.ch = Gateway!Numbers(r.read), r.eof => r.read = Length
        PROVE  GatewayInv'
    BY <2>1, <2>3, RelayMoves
  <2>4. CASE Gateway!Read(k)
    <3> DEFINE m == s.read + 1
               c == Gateway!Push(s)
               r == [s EXCEPT !.read = m, !.ch = c]
    <3>1. relay' = [relay EXCEPT ![k] = r] /\ ~s.eof /\ Gateway!Room(s)
      BY <2>4 DEF Gateway!Read
    <3>2. c \in Seq(Nat) /\ s.out \o c = Gateway!Numbers(m)
      BY <2>2, <3>1, ReadNext
    <3>3. m \in Nat
      BY <2>2 DEF RelayState
    <3> HIDE DEF m, c, s
    <3>4. r \in RelayState /\ r.out = s.out /\ r.ch = c /\ r.read = m /\ r.eof = s.eof
      BY <2>2, <3>2, <3>3 DEF RelayState
    <3> HIDE DEF r
    <3> QED BY <2>3, <3>1, <3>2, <3>4
  <2>5. CASE Gateway!EndOfStream(k)
    <3> DEFINE r == [s EXCEPT !.eof = TRUE]
    <3>1. relay' = [relay EXCEPT ![k] = r] /\ s.read = Length
      BY <2>5 DEF Gateway!EndOfStream
    <3>2. r \in RelayState /\ r.out = s.out /\ r.ch = s.ch /\ r.read = s.read
      BY <2>2 DEF RelayState
    <3> HIDE DEF r, s
    <3> QED BY <2>2, <2>3, <3>1, <3>2
  <2>6. CASE Gateway!Write(k)
    <3> DEFINE r == [s EXCEPT !.out = Append(@, Head(s.ch)), !.ch = Tail(@)]
    <3>1. relay' = [relay EXCEPT ![k] = r] /\ s.ch # <<>>
      BY <2>6 DEF Gateway!Write
    <3>2. s.out \in Seq(Nat) /\ s.ch \in Seq(Nat)
      BY <2>2 DEF RelayState
    <3>3. Append(s.out, Head(s.ch)) \in Seq(Nat) /\ Tail(s.ch) \in Seq(Nat)
          /\ Append(s.out, Head(s.ch)) \o Tail(s.ch) = s.out \o s.ch
      BY <3>1, <3>2, WriteOldest
    <3>4. /\ r \in RelayState /\ r.out = Append(s.out, Head(s.ch)) /\ r.ch = Tail(s.ch)
          /\ r.read = s.read /\ r.eof = s.eof
      BY <2>2, <3>3 DEF RelayState
    <3> HIDE DEF r, s
    <3> QED BY <2>2, <2>3, <3>1, <3>3, <3>4
  <2> QED BY <1>6, <2>4, <2>5, <2>6
<1>7. CASE Gateway!NextWindow
  BY <1>7, CallsStay DEF Gateway!NextWindow
<1>8. CASE Gateway!Rotate
  <2>1. count' \in Nat /\ through' \in Nat /\ through' <= count' /\ through' <= Limit
    BY <1>8 DEF Gateway!Rotate, GatewayInv, GatewayTypes
  <2> QED BY <1>8, <2>1, CallsStay DEF Gateway!Rotate, Gateway!Shift
<1>9. CASE UNCHANGED Gateway!gateways
  <2>1. UNCHANGED <<pc, kid, count, through, current, previous, secret, relay>>
    BY <1>9 DEF Gateway!gateways
  <2>2. count' \in Nat /\ through' \in Nat /\ through' <= count' /\ through' <= Limit
    BY <2>1 DEF GatewayInv, GatewayTypes
  <2> QED BY <2>1, <2>2, CallsStay
<1> QED BY <1>1, <1>2, <1>3, <1>4, <1>5, <1>6, <1>7, <1>8, <1>9 DEF Gateway!Next

(* What Services_proofs takes of gateways: the invariant holds at first,   *)
(* every step keeps it, and it implies what is promised.                   *)
LEMMA GatewayAlways ==
  ASSUME Limit \in Nat
  PROVE  /\ Gateway!Init => GatewayInv
         /\ GatewayInv /\ [Gateway!Next]_(Gateway!gateways) => GatewayInv'
         /\ GatewayInv => Gateway!GatewaysSound
<1>1. ASSUME Gateway!Init PROVE GatewayInv
  <2>1. <<>> \in Seq(Nat) /\ <<>> \o <<>> = Gateway!Numbers(0)
    BY DEF Gateway!Numbers
  <2>2. Gateway!Idle \in RelayState /\ Gateway!Idle.out = <<>> /\ Gateway!Idle.ch = <<>>
        /\ Gateway!Idle.read = 0 /\ ~Gateway!Idle.eof
    BY <2>1 DEF Gateway!Idle, RelayState
  <2>3. GatewayTypes
    BY <1>1, <2>2 DEF Gateway!Init, GatewayTypes
  <2>4. Relayed
    BY <1>1, <2>1, <2>2 DEF Gateway!Init, Relayed
  <2> QED BY <1>1, <2>3, <2>4 DEF Gateway!Init, GatewayInv, KeysKept, SecretsUsed
<1> QED BY <1>1, GatewayStep, GatewaySound

-----------------------------------------------------------------------------
(* incident-detection.  Nothing that is let in is called "none".           *)
SignaturesNamed == "none" \notin Alerts \cup Signatures /\ Window \in Nat

AlertState == [sig : Signatures \cup {"none"}, critical : BOOLEAN, at : Nat,
               stage : {"none", "taken", "in", "told", "dropped"}]
IncidentState == [status : {"none", "open", "resolved"}, opened : Nat, updated : Nat,
                  critical : BOOLEAN, events : SUBSET Alerts]

InTime(a) == alert[a].stage \in {"in", "told"}
Sig(i)    == alert[i].sig
Known(i)  == incident[i].status # "none"

IncidentTypes ==
  /\ alert \in [Alerts -> AlertState] /\ incident \in [Alerts -> IncidentState]
  /\ incidents \in [Signatures -> Alerts \cup {"none"}]
  /\ backwards \in BOOLEAN /\ minute \in Nat
  /\ \A a \in Alerts : /\ alert[a].stage \notin {"none", "dropped"} => Sig(a) \in Signatures
                       /\ alert[a].at <= minute

(* An incident is known by the alert that opened it, and has what it took. *)
Evidence ==
  /\ \A i \in Alerts : Known(i) => InTime(i) /\ incidents[Sig(i)] # "none"
  /\ \A s \in Signatures : incidents[s] # "none" => Known(incidents[s]) /\ Sig(incidents[s]) = s
  /\ \A i \in Alerts : \A a \in incident[i].events :
       /\ Known(i) /\ InTime(a) /\ Sig(a) = Sig(i)
       /\ alert[a].critical => incident[i].critical
  /\ \A i \in Alerts : incident[i].critical => \E a \in incident[i].events : alert[a].critical
  /\ \A a \in Alerts : InTime(a) => \E i \in Alerts : a \in incident[i].events
  /\ \A i, j \in Alerts : i # j => incident[i].events \cap incident[j].events = {}

(* While no alert was overtaken, an incident that is open and not the last *)
(* of its signature ended a window before any later one that is open or    *)
(* the last.                                                               *)
Current(j) == incident[j].status = "open" \/ incidents[Sig(j)] = j

Spaced ==
  /\ \A i \in Alerts : Known(i) =>
       incident[i].opened <= incident[i].updated /\ incident[i].updated <= minute
  /\ \A i \in Alerts : Known(i) => \A a \in incident[i].events : incident[i].opened <= alert[a].at
  /\ \A i \in Alerts : incident[i].status = "open" =>
       \A a \in incident[i].events : alert[a].at <= incident[i].updated
  /\ \A i, j \in Alerts :
       /\ incident[i].status = "open" /\ Known(j) /\ Current(j) /\ i # j /\ Sig(i) = Sig(j)
       /\ incident[i].opened <= incident[j].opened
       => incident[i].updated + Window < incident[j].opened
  /\ \A i \in Alerts : Known(i) => incident[i].opened <= incident[incidents[Sig(i)]].opened

IncidenceInv == IncidentTypes /\ Evidence /\ (~backwards => Spaced)

(* The invariant says what OneIncident promises.                           *)
LEMMA IncidentsHold ==
  ASSUME SignaturesNamed, IncidenceInv PROVE Incidence!OneIncident
<1>1. \A a \in Alerts : InTime(a) => /\ Cardinality({i \in Alerts : a \in incident[i].events}) = 1
                                     /\ \A i \in Alerts : a \in incident[i].events =>
                                          alert[i].sig = alert[a].sig
                                          /\ (alert[a].critical => incident[i].critical)
  <2> SUFFICES ASSUME NEW a \in Alerts, InTime(a)
               PROVE  /\ Cardinality({i \in Alerts : a \in incident[i].events}) = 1
                      /\ \A i \in Alerts : a \in incident[i].events =>
                           alert[i].sig = alert[a].sig
                           /\ (alert[a].critical => incident[i].critical)
    OBVIOUS
  <2>1. PICK i \in Alerts : a \in incident[i].events
    BY DEF IncidenceInv, Evidence
  <2>2. {j \in Alerts : a \in incident[j].events} = {i}
    BY <2>1 DEF IncidenceInv, Evidence
  <2> QED BY <2>2, FS_Singleton DEF IncidenceInv, Evidence, Sig
<1>2. \A S : Incidence!Cardinality(S) = Cardinality(S)
  BY Zenon DEF Incidence!Cardinality, Cardinality
<1>3. \A i \in Alerts : incident[i].critical => \E a \in Incidence!In(i) : alert[a].critical
  <2>1. \A i \in Alerts : Incidence!In(i) = incident[i].events
    BY DEF IncidenceInv, IncidentTypes, IncidentState, Incidence!In
  <2> QED BY <2>1 DEF IncidenceInv, Evidence
<1>4. ~backwards => \A i, j \in Alerts :
        incident[i].status = "open" /\ incident[j].status = "open" /\ i # j
          /\ alert[i].sig = alert[j].sig /\ incident[i].opened <= incident[j].opened =>
        \A a \in Incidence!In(i), b \in Incidence!In(j) : alert[b].at > alert[a].at + Window
  <2> SUFFICES ASSUME ~backwards, NEW i \in Alerts, NEW j \in Alerts,
                      incident[i].status = "open", incident[j].status = "open", i # j,
                      alert[i].sig = alert[j].sig, incident[i].opened <= incident[j].opened,
                      NEW a \in Incidence!In(i), NEW b \in Incidence!In(j)
               PROVE  alert[b].at > alert[a].at + Window
    OBVIOUS
  <2>1. a \in Alerts /\ b \in Alerts /\ a \in incident[i].events /\ b \in incident[j].events
    BY DEF Incidence!In
  <2>2. Spaced /\ Known(i) /\ Known(j) /\ Current(j)
    BY DEF IncidenceInv, Known, Current
  <2>3. incident[i].updated + Window < incident[j].opened
    BY <2>2 DEF Spaced, Sig
  <2>4. incident[j].opened <= alert[b].at /\ alert[a].at <= incident[i].updated
    BY <2>1, <2>2 DEF Spaced
  <2>5. /\ alert[a].at \in Nat /\ alert[b].at \in Nat /\ incident[i].updated \in Nat
        /\ incident[j].opened \in Nat
    BY <2>1 DEF IncidenceInv, IncidentTypes, AlertState, IncidentState
  <2> QED BY <2>3, <2>4, <2>5 DEF SignaturesNamed
<1> QED BY <1>1, <1>2, <1>3, <1>4 DEF Incidence!OneIncident, InTime

(* What is not let in yet or already told changes nothing.                 *)
LEMMA AlertsMove ==
  ASSUME SignaturesNamed, IncidenceInv, IncidentTypes',
         UNCHANGED <<incident, incidents, backwards>>, minute <= minute',
         \A a \in Alerts : /\ InTime(a) <=> InTime(a)'
                           /\ InTime(a) => /\ Sig(a)' = Sig(a) /\ alert'[a].at = alert[a].at
                                           /\ alert'[a].critical = alert[a].critical
  PROVE  IncidenceInv'
<1>1. \A i \in Alerts : Known(i) => InTime(i)
  BY DEF IncidenceInv, Evidence
<1>2. \A i \in Alerts : incident[i].events \subseteq Alerts
  BY DEF IncidenceInv, IncidentTypes, IncidentState
<1>3. \A i \in Alerts : \A a \in incident[i].events : Known(i) /\ InTime(a)
  BY DEF IncidenceInv, Evidence
<1>4. \A s \in Signatures : incidents[s] # "none" => incidents[s] \in Alerts /\ Known(incidents[s])
  BY DEF IncidenceInv, IncidentTypes, Evidence
<1>5. \A i \in Alerts : Known(i)' = Known(i)
  BY DEF Known
<1>6. \A i \in Alerts : \A a \in incident[i].events :
        /\ Sig(a)' = Sig(a) /\ Sig(i)' = Sig(i) /\ alert'[a].at = alert[a].at
        /\ alert'[a].critical = alert[a].critical
  BY <1>1, <1>2, <1>3
<1>7. Evidence'
  <2>1. \A i \in Alerts : Known(i)' => InTime(i)' /\ incidents'[Sig(i)'] # "none"
    BY <1>1, <1>5 DEF IncidenceInv, Evidence
  <2>2. \A s \in Signatures : (incidents[s] # "none" =>
          Known(incidents[s]) /\ Sig(incidents[s]) = s)'
    BY <1>1, <1>4, <1>5 DEF IncidenceInv, Evidence
  <2>3. \A i \in Alerts : \A a \in incident'[i].events :
          /\ Known(i)' /\ InTime(a)' /\ Sig(a)' = Sig(i)'
          /\ alert'[a].critical => incident'[i].critical
    BY <1>1, <1>2, <1>3, <1>5, <1>6 DEF IncidenceInv, Evidence
  <2>4. \A i \in Alerts : incident'[i].critical => \E a \in incident'[i].events : alert'[a].critical
    BY <1>6 DEF IncidenceInv, Evidence
  <2>5. \A a \in Alerts : InTime(a)' => \E i \in Alerts : a \in incident'[i].events
    BY DEF IncidenceInv, Evidence
  <2>6. \A i, j \in Alerts : i # j => incident'[i].events \cap incident'[j].events = {}
    BY DEF IncidenceInv, Evidence
  <2> QED BY <2>1, <2>2, <2>3, <2>4, <2>5, <2>6 DEF Evidence
<1>8. ASSUME ~backwards PROVE Spaced'
  <2>1. Spaced
    BY <1>8 DEF IncidenceInv
  <2>2. \A i \in Alerts : Known(i) => Sig(i)' = Sig(i) /\ Current(i)' = Current(i)
    BY <1>1 DEF Current
  <2>3. \A i \in Alerts : Known(i)' =>
          incident'[i].opened <= incident'[i].updated /\ incident'[i].updated <= minute'
    BY <2>1, <1>5 DEF Spaced, IncidenceInv, IncidentTypes, IncidentState
  <2>4. \A i \in Alerts : Known(i)' => \A a \in incident'[i].events :
          incident'[i].opened <= alert'[a].at
    BY <1>5, <1>6, <2>1 DEF Spaced
  <2>5. \A i \in Alerts : incident'[i].status = "open" =>
          \A a \in incident'[i].events : alert'[a].at <= incident'[i].updated
    BY <1>6, <2>1 DEF Spaced
  <2>6. \A i, j \in Alerts :
          /\ incident'[i].status = "open" /\ Known(j)' /\ Current(j)' /\ i # j /\ Sig(i)' = Sig(j)'
          /\ incident'[i].opened <= incident'[j].opened
          => incident'[i].updated + Window < incident'[j].opened
    BY <1>5, <2>1, <2>2 DEF Spaced, Known
  <2>7. \A i \in Alerts : Known(i)' =>
          incident'[i].opened <= incident'[incidents'[Sig(i)']].opened
    BY <1>5, <2>1, <2>2 DEF Spaced
  <2> QED BY <2>3, <2>4, <2>5, <2>6, <2>7 DEF Spaced
<1> QED BY <1>7, <1>8 DEF IncidenceInv

(* An incident is resolved: the others stand.                              *)
LEMMA ResolveStep ==
  ASSUME SignaturesNamed, IncidenceInv, NEW r \in Alerts, Incidence!Resolve(r)
  PROVE  IncidenceInv'
<1>0. incident' = [incident EXCEPT ![r].status = "resolved", ![r].updated = minute]
  BY DEF Incidence!Resolve
<1>1. Known(r) /\ UNCHANGED <<alert, incidents, backwards, minute>>
  BY DEF Incidence!Resolve, Known
<1>2. \A i \in Alerts :
        /\ incident'[i].opened = incident[i].opened /\ incident'[i].critical = incident[i].critical
        /\ incident'[i].events = incident[i].events
        /\ i # r => incident'[i] = incident[i]
        /\ i = r => incident'[i].status = "resolved" /\ incident'[i].updated = minute
  BY <1>0 DEF IncidenceInv, IncidentTypes, IncidentState
<1>3. incident' \in [Alerts -> IncidentState]
  BY <1>0, ZenonT(60) DEF IncidenceInv, IncidentTypes, IncidentState
<1>4. IncidentTypes'
  BY <1>1, <1>3 DEF IncidenceInv, IncidentTypes, Sig
<1>5. \A i \in Alerts : Known(i)' <=> Known(i)
  BY <1>1, <1>2 DEF Known
<1>6. \A i \in Alerts : Sig(i)' = Sig(i) /\ InTime(i)' = InTime(i)
  BY <1>1 DEF Sig, InTime
<1>7. incidents \in [Signatures -> Alerts \cup {"none"}]
      /\ \A i \in Alerts : incident[i].events \subseteq Alerts
  BY DEF IncidenceInv, IncidentTypes, IncidentState
<1>8. Evidence'
  <2>1. \A i \in Alerts : Known(i)' => InTime(i)' /\ incidents'[Sig(i)'] # "none"
    BY <1>1, <1>5, <1>6 DEF IncidenceInv, Evidence
  <2>2. \A k \in Signatures : (incidents[k] # "none" =>
          Known(incidents[k]) /\ Sig(incidents[k]) = k)'
    BY <1>1, <1>5, <1>6, <1>7 DEF IncidenceInv, Evidence
  <2>3. \A i \in Alerts : \A a \in incident'[i].events :
          /\ Known(i)' /\ InTime(a)' /\ Sig(a)' = Sig(i)'
          /\ alert'[a].critical => incident'[i].critical
    BY <1>1, <1>2, <1>5, <1>6, <1>7 DEF IncidenceInv, Evidence
  <2>4. \A i \in Alerts : incident'[i].critical => \E a \in incident'[i].events : alert'[a].critical
    BY <1>1, <1>2 DEF IncidenceInv, Evidence
  <2>5. \A a \in Alerts : InTime(a)' => \E i \in Alerts : a \in incident'[i].events
    BY <1>2, <1>6 DEF IncidenceInv, Evidence
  <2>6. \A i, j \in Alerts : i # j => incident'[i].events \cap incident'[j].events = {}
    BY <1>2 DEF IncidenceInv, Evidence
  <2> QED BY <2>1, <2>2, <2>3, <2>4, <2>5, <2>6 DEF Evidence
<1>9. ASSUME ~backwards PROVE Spaced'
  <2>1. Spaced
    BY <1>9 DEF IncidenceInv
  <2>2. \A i \in Alerts : Current(i)' => Current(i)
    BY <1>1, <1>2, <1>6 DEF Current
  <2>3. \A i \in Alerts : Known(i)' =>
          incident'[i].opened <= incident'[i].updated /\ incident'[i].updated <= minute'
    <3>1. minute \in Nat /\ \A i \in Alerts : incident[i].opened \in Nat /\ incident[i].updated \in Nat
      BY DEF IncidenceInv, IncidentTypes, IncidentState
    <3> QED BY <1>1, <1>2, <1>5, <2>1, <3>1 DEF Spaced
  <2>4. \A i \in Alerts : Known(i)' => \A a \in incident'[i].events :
          incident'[i].opened <= alert'[a].at
    BY <1>1, <1>2, <1>5, <2>1 DEF Spaced
  <2>5. \A i \in Alerts : incident'[i].status = "open" =>
          \A a \in incident'[i].events : alert'[a].at <= incident'[i].updated
    BY <1>1, <1>2, <2>1 DEF Spaced
  <2>6. \A i, j \in Alerts :
          /\ incident'[i].status = "open" /\ Known(j)' /\ Current(j)' /\ i # j /\ Sig(i)' = Sig(j)'
          /\ incident'[i].opened <= incident'[j].opened
          => incident'[i].updated + Window < incident'[j].opened
    BY <1>1, <1>2, <1>5, <1>6, <2>1, <2>2 DEF Spaced
  <2>7. \A i \in Alerts : Known(i) => incidents[Sig(i)] \in Alerts
    <3>1. \A i \in Alerts : Known(i) => Sig(i) \in Signatures /\ incidents[Sig(i)] # "none"
      BY DEF IncidenceInv, Evidence, IncidentTypes, InTime
    <3> QED BY <1>7, <3>1
  <2>8. \A i \in Alerts : Known(i)' =>
          incident'[i].opened <= incident'[incidents'[Sig(i)']].opened
    BY <1>1, <1>2, <1>5, <1>6, <2>1, <2>7 DEF Spaced
  <2> QED BY <2>3, <2>4, <2>5, <2>6, <2>8 DEF Spaced
<1> QED BY <1>1, <1>4, <1>8, <1>9 DEF IncidenceInv

(* What Store.upsert leaves alone, whether it merges or opens.             *)
LEMMA UpsertTyped ==
  ASSUME SignaturesNamed, IncidenceInv, NEW n \in Alerts, Incidence!Upsert(n)
  PROVE  LET s == Sig(n)
             c == incidents[s]
             time == alert[n].at
         IN  /\ s \in Signatures /\ c \in Alerts \cup {"none"} /\ time \in Nat /\ time <= minute
             /\ ~InTime(n) /\ ~Known(n) /\ InTime(n)'
             /\ \A a \in Alerts : /\ Sig(a)' = Sig(a) /\ alert'[a].at = alert[a].at
                                  /\ alert'[a].critical = alert[a].critical
                                  /\ a # n => InTime(a)' = InTime(a)
             /\ backwards' = (backwards \/ (c # "none" /\ time < incident[c].updated))
             /\ minute' = minute /\ incidents' \in [Signatures -> Alerts \cup {"none"}]
             /\ alert' \in [Alerts -> AlertState]
             /\ \A a \in Alerts : /\ alert'[a].stage \notin {"none", "dropped"} => Sig(a)' \in Signatures
                                  /\ alert'[a].at <= minute'
             /\ IF c # "none" /\ Incidence!Merges(c, time)
                THEN /\ incidents' = incidents
                     /\ incident' = [incident EXCEPT ![c].events = @ \cup {n}, ![c].updated = time,
                                                     ![c].critical = @ \/ alert[n].critical]
                ELSE /\ incidents' = [incidents EXCEPT ![s] = n]
                     /\ incident' = [incident EXCEPT ![n] =
                          [status |-> "open", opened |-> time, updated |-> time,
                           critical |-> alert[n].critical, events |-> {n}]]
<1> DEFINE c == incidents[Sig(n)]
           time == alert[n].at
           merges == c # "none" /\ Incidence!Merges(c, time)
           to == IF merges THEN "told" ELSE "in"
<1>1. /\ alert[n].stage = "taken" /\ alert' = [alert EXCEPT ![n].stage = to]
      /\ backwards' = (backwards \/ (c # "none" /\ time < incident[c].updated))
      /\ minute' = minute
      /\ IF merges
         THEN /\ incidents' = incidents
              /\ incident' = [incident EXCEPT ![c].events = @ \cup {n}, ![c].updated = time,
                                              ![c].critical = @ \/ alert[n].critical]
         ELSE /\ incidents' = [incidents EXCEPT ![Sig(n)] = n]
              /\ incident' = [incident EXCEPT ![n] =
                   [status |-> "open", opened |-> time, updated |-> time,
                    critical |-> alert[n].critical, events |-> {n}]]
  <2>1. CASE merges
    BY <2>1 DEF Incidence!Upsert, Sig
  <2>2. CASE ~merges
    BY <2>2 DEF Incidence!Upsert, Sig
  <2> QED BY <2>1, <2>2
<1>2. alert \in [Alerts -> AlertState]
  BY DEF IncidenceInv, IncidentTypes
<1>3. to \in {"in", "told"}
  OBVIOUS
<1>4. Sig(n) \in Signatures /\ c \in Alerts \cup {"none"} /\ time \in Nat /\ time <= minute
  BY <1>1 DEF IncidenceInv, IncidentTypes, AlertState
<1>5. ~InTime(n) /\ ~Known(n)
  BY <1>1 DEF IncidenceInv, Evidence, InTime
<1> HIDE DEF merges, to
<1>6. /\ alert' \in [Alerts -> AlertState]
      /\ \A a \in Alerts : /\ alert'[a].sig = alert[a].sig /\ alert'[a].at = alert[a].at
                           /\ alert'[a].critical = alert[a].critical
                           /\ alert'[a].stage = IF a = n THEN to ELSE alert[a].stage
  BY <1>1, <1>2, <1>3 DEF AlertState
<1>7. incidents' \in [Signatures -> Alerts \cup {"none"}]
  BY <1>1, <1>4 DEF IncidenceInv, IncidentTypes
<1>8. \A a \in Alerts : alert'[a].stage \notin {"none", "dropped"} => Sig(a)' \in Signatures
  BY <1>4, <1>6 DEF IncidenceInv, IncidentTypes, Sig
<1>9. \A a \in Alerts : alert'[a].at <= minute'
  BY <1>1, <1>6 DEF IncidenceInv, IncidentTypes
<1> QED BY <1>1, <1>3, <1>4, <1>5, <1>6, <1>7, <1>8, <1>9 DEF merges, Sig, InTime

(* An alert is merged into the open incident of its signature.             *)
LEMMA MergeAlert ==
  ASSUME SignaturesNamed, IncidenceInv, NEW n \in Alerts, Incidence!Upsert(n),
         incidents[Sig(n)] # "none", Incidence!Merges(incidents[Sig(n)], alert[n].at)
  PROVE  IncidenceInv'
<1> DEFINE s == Sig(n)
           c == incidents[s]
           time == alert[n].at
<1>1. /\ s \in Signatures /\ c \in Alerts /\ time \in Nat /\ time <= minute
      /\ ~InTime(n) /\ ~Known(n) /\ InTime(n)'
      /\ \A a \in Alerts : /\ Sig(a)' = Sig(a) /\ alert'[a].at = alert[a].at
                           /\ alert'[a].critical = alert[a].critical
                           /\ a # n => InTime(a)' = InTime(a)
      /\ backwards' = (backwards \/ time < incident[c].updated)
      /\ minute' = minute /\ incidents' = incidents
  BY UpsertTyped DEF SignaturesNamed
<1>0. incident' = [incident EXCEPT ![c].events = @ \cup {n}, ![c].updated = time,
                                   ![c].critical = @ \/ alert[n].critical]
  BY UpsertTyped
<1>2. Known(c) /\ Sig(c) = s /\ incident[c].status = "open" /\ c # n
  BY <1>1 DEF IncidenceInv, Evidence, Incidence!Merges
<1>3. alert[n].critical \in BOOLEAN /\ incident \in [Alerts -> IncidentState]
  BY DEF IncidenceInv, IncidentTypes, AlertState
<1> HIDE DEF c, s, time
<1>4. \A i \in Alerts :
        /\ incident'[i].opened = incident[i].opened /\ incident'[i].status = incident[i].status
        /\ i # c => incident'[i] = incident[i]
        /\ i = c => /\ incident'[i].updated = time
                    /\ incident'[i].events = incident[i].events \cup {n}
                    /\ incident'[i].critical = (incident[i].critical \/ alert[n].critical)
  BY <1>0, <1>1, <1>3 DEF IncidentState
<1>5. incident' \in [Alerts -> IncidentState]
  <2> DEFINE taken == incident[c].critical \/ alert[n].critical
             all   == incident[c].events \cup {n}
  <2>1. incident' = [incident EXCEPT ![c].events = all, ![c].updated = time, ![c].critical = taken]
    BY <1>0
  <2>2. taken \in BOOLEAN /\ all \in SUBSET Alerts
    BY <1>1, <1>3 DEF IncidentState
  <2> HIDE DEF taken, all
  <2> DEFINE f == [incident EXCEPT ![c].events = all]
             g == [f EXCEPT ![c].updated = time]
             h == [g EXCEPT ![c].critical = taken]
  <2>3. f \in [Alerts -> IncidentState]
    BY <1>1, <1>3, <2>2 DEF IncidentState
  <2> HIDE DEF f
  <2>4. g \in [Alerts -> IncidentState]
    BY <1>1, <2>3 DEF IncidentState
  <2> HIDE DEF g
  <2>5. h \in [Alerts -> IncidentState]
    BY <1>1, <2>2, <2>4 DEF IncidentState
  <2>6. incident' = h
    BY <2>1, Zenon DEF f, g
  <2> QED BY <2>5, <2>6
<1>6. IncidentTypes'
  BY <1>1, <1>5, UpsertTyped DEF IncidenceInv, IncidentTypes
<1>7. \A i \in Alerts : Known(i)' <=> Known(i)
  BY <1>4 DEF Known
<1>8. \A i \in Alerts : incident[i].events \subseteq Alerts /\ n \notin incident[i].events
  BY <1>1, <1>3 DEF IncidenceInv, Evidence, IncidentState
<1>11. \A i \in Alerts :
         /\ incident[i].critical \/ (i = c /\ alert[n].critical) => incident'[i].critical
         /\ incident'[i].critical => incident[i].critical \/ (i = c /\ alert[n].critical)
  BY <1>4, Zenon
<1>9. Evidence'
  <2>1. \A i \in Alerts : Known(i)' => InTime(i)' /\ incidents'[Sig(i)'] # "none"
    BY <1>1, <1>7 DEF IncidenceInv, Evidence
  <2>2. \A k \in Signatures : (incidents[k] # "none" =>
          Known(incidents[k]) /\ Sig(incidents[k]) = k)'
    BY <1>1, <1>7 DEF IncidenceInv, Evidence, IncidentTypes
  <2>3. \A i \in Alerts : \A a \in incident'[i].events :
          /\ Known(i)' /\ InTime(a)' /\ Sig(a)' = Sig(i)'
          /\ alert'[a].critical => incident'[i].critical
    <3> SUFFICES ASSUME NEW i \in Alerts, NEW a \in incident'[i].events
                 PROVE  /\ Known(i)' /\ InTime(a)' /\ Sig(a)' = Sig(i)'
                        /\ alert'[a].critical => incident'[i].critical
      OBVIOUS
    <3>1. CASE a \in incident[i].events
      <4>1. /\ Known(i) /\ InTime(a) /\ Sig(a) = Sig(i) /\ a \in Alerts
            /\ alert[a].critical => incident[i].critical
        BY <1>8, <3>1 DEF IncidenceInv, Evidence
      <4> QED BY <1>1, <1>7, <1>11, <4>1
    <3>2. CASE a \notin incident[i].events
      <4>1. i = c /\ a = n
        BY <1>4, <3>2
      <4>2. Sig(n) = s
        BY DEF s
      <4> QED BY <1>1, <1>2, <1>7, <1>11, <4>1, <4>2
    <3> QED BY <3>1, <3>2
  <2>4. \A i \in Alerts : incident'[i].critical => \E a \in incident'[i].events : alert'[a].critical
    <3> SUFFICES ASSUME NEW i \in Alerts, incident'[i].critical
                 PROVE  \E a \in incident'[i].events : alert'[a].critical
      OBVIOUS
    <3>1. CASE incident[i].critical
      BY <1>1, <1>4, <1>8, <3>1 DEF IncidenceInv, Evidence
    <3>2. CASE ~incident[i].critical
      <4>1. i = c /\ alert[n].critical
        BY <1>11, <3>2
      <4> QED BY <1>1, <1>4, <4>1
    <3> QED BY <3>1, <3>2
  <2>5. \A a \in Alerts : InTime(a)' => \E i \in Alerts : a \in incident'[i].events
    BY <1>1, <1>4 DEF IncidenceInv, Evidence
  <2>6. \A i, j \in Alerts : i # j => incident'[i].events \cap incident'[j].events = {}
    BY <1>4, <1>8 DEF IncidenceInv, Evidence
  <2> QED BY <2>1, <2>2, <2>3, <2>4, <2>5, <2>6 DEF Evidence
<1>10. ASSUME ~backwards' PROVE Spaced'
  <2>1. Spaced /\ incident[c].updated <= time /\ ~backwards
    <3>1. incident[c].updated \in Nat
      BY <1>1, <1>3 DEF IncidentState
    <3>2. ~backwards /\ ~(time < incident[c].updated)
      BY <1>1, <1>10, Zenon
    <3> QED BY <1>1, <3>1, <3>2 DEF IncidenceInv
  <2>2. \A i \in Alerts : Current(i)' = Current(i)
    BY <1>1, <1>4 DEF Current
  <2>3. \A i \in Alerts : incident[i].opened \in Nat /\ incident[i].updated \in Nat
    BY <1>3 DEF IncidentState
  <2>4. minute \in Nat /\ Window \in Nat
    BY DEF SignaturesNamed, IncidenceInv, IncidentTypes
  <2>5. \A i \in Alerts : Known(i)' =>
          incident'[i].opened <= incident'[i].updated /\ incident'[i].updated <= minute'
    BY <1>1, <1>4, <1>7, <2>1, <2>3, <2>4 DEF Spaced
  <2>6. ASSUME NEW i \in Alerts, Known(i)', NEW a \in incident'[i].events
        PROVE  incident'[i].opened <= alert'[a].at
    <3>1. CASE a = n
      <4>1. i = c
        BY <1>4, <1>8, <2>6, <3>1
      <4>2. incident[c].opened <= time
        BY <1>1, <1>2, <2>1, <2>3 DEF Spaced
      <4> QED BY <1>1, <1>4, <3>1, <4>1, <4>2 DEF time
    <3>2. CASE a # n
      BY <1>1, <1>4, <1>7, <1>8, <2>1, <2>6, <3>2 DEF Spaced
    <3> QED BY <3>1, <3>2
  <2>7. ASSUME NEW i \in Alerts, incident'[i].status = "open", NEW a \in incident'[i].events
        PROVE  alert'[a].at <= incident'[i].updated
    <3>1. CASE a = n
      <4>1. i = c
        BY <1>4, <1>8, <2>7, <3>1
      <4> QED BY <1>1, <1>4, <3>1, <4>1 DEF time
    <3>2. CASE a # n
      <4>1. a \in incident[i].events /\ a \in Alerts /\ incident[i].status = "open"
        BY <1>4, <1>8, <2>7, <3>2
      <4>2. alert[a].at <= incident[i].updated
        BY <2>1, <4>1 DEF Spaced
      <4>3. alert[a].at \in Nat
        BY <4>1 DEF IncidenceInv, IncidentTypes, AlertState
      <4> QED BY <1>1, <1>4, <2>1, <2>3, <4>1, <4>2, <4>3
    <3> QED BY <3>1, <3>2
  <2>8. ASSUME NEW i \in Alerts, NEW j \in Alerts, incident'[i].status = "open", Known(j)',
               Current(j)', i # j, Sig(i)' = Sig(j)', incident'[i].opened <= incident'[j].opened
        PROVE  incident'[i].updated + Window < incident'[j].opened
    <3>1. /\ incident[i].status = "open" /\ Known(i) /\ Known(j) /\ Current(j) /\ Sig(i) = Sig(j)
          /\ incident[i].opened <= incident[j].opened
      BY <1>1, <1>4, <1>7, <2>2, <2>8 DEF Known
    <3>2. incident[i].updated + Window < incident[j].opened
      BY <2>1, <2>8, <3>1 DEF Spaced
    <3>3. i # c
      <4> SUFFICES ASSUME i = c PROVE FALSE
        OBVIOUS
      <4>1. incidents[Sig(j)] = c
        BY <1>2, <3>1 DEF c
      <4>2. incident[j].opened <= incident[c].opened /\ incident[c].opened <= incident[c].updated
        BY <1>1, <1>2, <2>1, <3>1, <4>1 DEF Spaced
      <4> QED BY <1>1, <2>3, <2>4, <3>2, <4>2
    <3> QED BY <1>4, <3>2, <3>3
  <2>9. \A i \in Alerts : Known(i)' =>
          incident'[i].opened <= incident'[incidents'[Sig(i)']].opened
    <3>1. \A i \in Alerts : Known(i) => incidents[Sig(i)] \in Alerts
      BY SMTT(60) DEF IncidenceInv, IncidentTypes, Evidence, InTime
    <3> QED BY <1>1, <1>4, <1>7, <2>1, <3>1 DEF Spaced
  <2> QED BY <2>5, <2>6, <2>7, <2>8, <2>9 DEF Spaced
<1> QED BY <1>6, <1>9, <1>10 DEF IncidenceInv

(* An alert opens an incident of its own, the last of its signature.       *)
LEMMA OpenIncident ==
  ASSUME SignaturesNamed, IncidenceInv, NEW n \in Alerts, Incidence!Upsert(n),
         ~(incidents[Sig(n)] # "none" /\ Incidence!Merges(incidents[Sig(n)], alert[n].at))
  PROVE  IncidenceInv'
<1> DEFINE s == Sig(n)
           c == incidents[s]
           time == alert[n].at
           new == [status |-> "open", opened |-> time, updated |-> time,
                   critical |-> alert[n].critical, events |-> {n}]
<1>1. /\ s \in Signatures /\ c \in Alerts \cup {"none"} /\ time \in Nat /\ time <= minute
      /\ ~InTime(n) /\ ~Known(n) /\ InTime(n)'
      /\ \A a \in Alerts : /\ Sig(a)' = Sig(a) /\ alert'[a].at = alert[a].at
                           /\ alert'[a].critical = alert[a].critical
                           /\ a # n => InTime(a)' = InTime(a)
      /\ backwards' = (backwards \/ (c # "none" /\ time < incident[c].updated))
      /\ minute' = minute
  BY UpsertTyped
<1>0. incidents' = [incidents EXCEPT ![s] = n] /\ incident' = [incident EXCEPT ![n] = new]
  BY UpsertTyped
<1>2. /\ alert[n].critical \in BOOLEAN /\ incident \in [Alerts -> IncidentState]
      /\ incidents \in [Signatures -> Alerts \cup {"none"}]
  BY DEF IncidenceInv, IncidentTypes, AlertState
<1>3. new \in IncidentState
  BY <1>1, <1>2 DEF IncidentState
<1>4. /\ new.status = "open" /\ new.opened = time /\ new.updated = time
      /\ new.critical = alert[n].critical /\ new.events = {n}
  OBVIOUS
<1>5. c # "none" => /\ c \in Alerts /\ Known(c) /\ Sig(c) = s /\ c # n
                    /\ incident[c].status = "open" => ~(time <= incident[c].updated + Window)
  BY <1>1 DEF IncidenceInv, Evidence, Incidence!Merges
<1>6. c = "none" => \A i \in Alerts : Known(i) => Sig(i) # s
  BY DEF IncidenceInv, Evidence
<1>7. "none" \notin Alerts
  BY DEF SignaturesNamed
<1> HIDE DEF c, s, time, new
<1>8. /\ incident' \in [Alerts -> IncidentState] /\ incident'[n] = new
      /\ \A i \in Alerts : i # n => incident'[i] = incident[i]
      /\ \A k \in Signatures : incidents'[k] = IF k = s THEN n ELSE incidents[k]
  BY <1>0, <1>1, <1>2, <1>3
<1>9. IncidentTypes'
  BY <1>1, <1>8, UpsertTyped DEF IncidenceInv, IncidentTypes
<1>10. Known(n)' /\ \A i \in Alerts : i # n => (Known(i)' <=> Known(i))
  BY <1>4, <1>8 DEF Known
<1>11. \A i \in Alerts : incident[i].events \subseteq Alerts /\ n \notin incident[i].events
  BY <1>1, <1>2 DEF IncidenceInv, Evidence, IncidentState
<1>12. \A i \in Alerts : Known(i) => Sig(i) \in Signatures
  BY DEF IncidenceInv, IncidentTypes, Evidence, InTime
<1>13. Sig(n) = s /\ alert[n].at = time
  BY DEF s, time
<1>14. Evidence'
  <2>1. \A i \in Alerts : Known(i)' => InTime(i)' /\ incidents'[Sig(i)'] # "none"
    BY <1>1, <1>7, <1>8, <1>10, <1>12, <1>13 DEF IncidenceInv, Evidence
  <2>2. \A k \in Signatures : (incidents[k] # "none" =>
          Known(incidents[k]) /\ Sig(incidents[k]) = k)'
    <3> SUFFICES ASSUME NEW k \in Signatures
                 PROVE  (incidents[k] # "none" => Known(incidents[k]) /\ Sig(incidents[k]) = k)'
      OBVIOUS
    <3>1. CASE k = s
      BY <1>1, <1>8, <1>10, <1>13, <3>1
    <3>2. CASE k # s
      <4>1. incidents'[k] = incidents[k]
        BY <1>8, <3>2
      <4>2. ASSUME incidents[k] # "none"
            PROVE  incidents[k] \in Alerts /\ Known(incidents[k]) /\ Sig(incidents[k]) = k
        BY <1>2, <4>2 DEF IncidenceInv, Evidence
      <4> QED BY <1>1, <1>10, <4>1, <4>2
    <3> QED BY <3>1, <3>2
  <2>3. \A i \in Alerts : \A a \in incident'[i].events :
          /\ Known(i)' /\ InTime(a)' /\ Sig(a)' = Sig(i)'
          /\ alert'[a].critical => incident'[i].critical
    <3> SUFFICES ASSUME NEW i \in Alerts, NEW a \in incident'[i].events
                 PROVE  /\ Known(i)' /\ InTime(a)' /\ Sig(a)' = Sig(i)'
                        /\ alert'[a].critical => incident'[i].critical
      OBVIOUS
    <3>1. CASE i = n
      BY <1>1, <1>4, <1>8, <1>10, <3>1
    <3>2. CASE i # n
      BY <1>1, <1>8, <1>10, <1>11, <3>2 DEF IncidenceInv, Evidence
    <3> QED BY <3>1, <3>2
  <2>4. \A i \in Alerts : incident'[i].critical => \E a \in incident'[i].events : alert'[a].critical
    <3> SUFFICES ASSUME NEW i \in Alerts, incident'[i].critical
                 PROVE  \E a \in incident'[i].events : alert'[a].critical
      OBVIOUS
    <3>1. CASE i = n
      BY <1>1, <1>4, <1>8, <3>1
    <3>2. CASE i # n
      BY <1>1, <1>8, <1>11, <3>2 DEF IncidenceInv, Evidence
    <3> QED BY <3>1, <3>2
  <2>5. \A a \in Alerts : InTime(a)' => \E i \in Alerts : a \in incident'[i].events
    <3> SUFFICES ASSUME NEW a \in Alerts, InTime(a)'
                 PROVE  \E i \in Alerts : a \in incident'[i].events
      OBVIOUS
    <3>1. CASE a = n
      BY <1>4, <1>8, <3>1
    <3>2. CASE a # n
      <4>1. PICK i \in Alerts : a \in incident[i].events
        BY <1>1, <3>2 DEF IncidenceInv, Evidence
      <4>2. i # n
        BY <1>1, <4>1 DEF IncidenceInv, Evidence
      <4> QED BY <1>8, <4>1, <4>2
    <3> QED BY <3>1, <3>2
  <2>6. \A i, j \in Alerts : i # j => incident'[i].events \cap incident'[j].events = {}
    BY <1>4, <1>8, <1>11 DEF IncidenceInv, Evidence
  <2> QED BY <2>1, <2>2, <2>3, <2>4, <2>5, <2>6 DEF Evidence
<1>15. ASSUME ~backwards' PROVE Spaced'
  <2>1. \A i \in Alerts : incident[i].opened \in Nat /\ incident[i].updated \in Nat
    BY <1>2 DEF IncidentState
  <2>2. Spaced /\ (c # "none" => incident[c].updated <= time)
    <3>1. ~backwards /\ ~(c # "none" /\ time < incident[c].updated)
      BY <1>1, <1>15, Zenon
    <3> QED BY <1>1, <1>5, <2>1, <3>1 DEF IncidenceInv
  <2>3. minute \in Nat /\ Window \in Nat
    BY DEF SignaturesNamed, IncidenceInv, IncidentTypes
  <2>4. ASSUME NEW i \in Alerts, Known(i), Sig(i) = s
        PROVE  /\ c \in Alerts /\ incident[i].opened <= incident[c].opened
               /\ incident[c].opened <= incident[c].updated /\ incident[c].updated <= time
               /\ incident[i].opened <= incident[i].updated
               /\ incident[i].status = "open" => incident[i].updated + Window < time
    <3>1. c \in Alerts /\ c # "none" /\ incidents[Sig(i)] = c /\ Known(c)
      BY <1>1, <1>5, <1>6, <2>4 DEF c
    <3>2. /\ incident[i].opened <= incident[c].opened /\ incident[i].opened <= incident[i].updated
          /\ incident[c].opened <= incident[c].updated /\ incident[c].updated <= time
      BY <2>2, <2>4, <3>1 DEF Spaced
    <3>3. ASSUME incident[i].status = "open" PROVE incident[i].updated + Window < time
      <4>1. CASE i = c
        BY <1>1, <1>5, <2>1, <2>3, <3>1, <3>3, <4>1
      <4>2. CASE i # c
        <5>1. Current(c) /\ Sig(c) = Sig(i)
          BY <1>5, <2>4, <3>1 DEF Current
        <5>2. incident[i].updated + Window < incident[c].opened
          BY <2>2, <3>1, <3>2, <3>3, <4>2, <5>1, <2>4 DEF Spaced
        <5> QED BY <1>1, <2>1, <2>3, <3>1, <3>2, <5>2
      <4> QED BY <4>1, <4>2
    <3> QED BY <3>1, <3>2, <3>3
  <2>5. \A i \in Alerts : Known(i)' =>
          incident'[i].opened <= incident'[i].updated /\ incident'[i].updated <= minute'
    BY <1>1, <1>4, <1>8, <1>10, <2>2 DEF Spaced
  <2>6. \A i \in Alerts : Known(i)' => \A a \in incident'[i].events :
          incident'[i].opened <= alert'[a].at
    BY <1>1, <1>4, <1>8, <1>10, <1>11, <1>13, <2>2 DEF Spaced
  <2>7. \A i \in Alerts : incident'[i].status = "open" =>
          \A a \in incident'[i].events : alert'[a].at <= incident'[i].updated
    BY <1>1, <1>4, <1>8, <1>11, <1>13, <2>2 DEF Spaced
  <2>8. ASSUME NEW i \in Alerts, NEW j \in Alerts, incident'[i].status = "open", Known(j)',
               Current(j)', i # j, Sig(i)' = Sig(j)', incident'[i].opened <= incident'[j].opened
        PROVE  incident'[i].updated + Window < incident'[j].opened
    <3>1. CASE j = n
      <4>1. Known(i) /\ Sig(i) = s /\ incident[i].status = "open" /\ incident'[i] = incident[i]
        BY <1>1, <1>8, <1>10, <1>13, <2>8, <3>1 DEF Known
      <4> QED BY <1>4, <1>8, <2>4, <3>1, <4>1
    <3>2. CASE i = n
      <4>1. Known(j) /\ Sig(j) = s /\ incident'[j] = incident[j]
        BY <1>1, <1>8, <1>10, <1>13, <2>8, <3>2
      <4>2. incident[j].status = "open"
        BY <1>1, <1>8, <1>13, <2>8, <3>2, <4>1 DEF Current
      <4>3. time <= incident[j].opened
        BY <1>4, <1>8, <2>8, <3>2, <4>1
      <4> QED BY <1>1, <2>1, <2>3, <2>4, <4>1, <4>2, <4>3
    <3>3. CASE i # n /\ j # n
      <4>1. /\ incident'[i] = incident[i] /\ incident'[j] = incident[j] /\ Known(j)
            /\ Sig(i) = Sig(j)
        BY <1>1, <1>8, <1>10, <2>8, <3>3
      <4>2. Current(j)
        BY <1>1, <1>8, <1>12, <2>8, <3>3, <4>1 DEF Current
      <4> QED BY <2>2, <2>8, <4>1, <4>2 DEF Spaced
    <3> QED BY <3>1, <3>2, <3>3
  <2>9. ASSUME NEW i \in Alerts, Known(i)'
        PROVE  incident'[i].opened <= incident'[incidents'[Sig(i)']].opened
    <3>1. CASE i = n
      BY <1>1, <1>4, <1>8, <1>13, <3>1
    <3>2. CASE i # n /\ Sig(i) = s
      <4>1. incident[i].opened <= time
        BY <1>1, <1>10, <2>1, <2>4, <2>9, <3>2
      <4> QED BY <1>1, <1>4, <1>8, <3>2, <4>1
    <3>3. CASE i # n /\ Sig(i) # s
      <4>1. Known(i) /\ Sig(i) \in Signatures /\ incidents[Sig(i)] \in Alerts
            /\ Sig(incidents[Sig(i)]) = Sig(i)
        BY <1>2, <1>10, <1>12, <2>9, <3>3 DEF IncidenceInv, Evidence
      <4>2. incidents'[Sig(i)'] = incidents[Sig(i)] /\ incidents[Sig(i)] # n
        BY <1>1, <1>8, <1>13, <3>3, <4>1
      <4> QED BY <1>8, <2>2, <3>3, <4>1, <4>2 DEF Spaced
    <3> QED BY <3>1, <3>2, <3>3
  <2> QED BY <2>5, <2>6, <2>7, <2>8, <2>9 DEF Spaced
<1> QED BY <1>9, <1>14, <1>15 DEF IncidenceInv

(* Arrivals, merges, openings, resolutions and the clock keep it.          *)
LEMMA IncidenceStep ==
  ASSUME SignaturesNamed, IncidenceInv, Incidence!Next
  PROVE  IncidenceInv'
<1>0. /\ alert \in [Alerts -> AlertState] /\ minute \in Nat
      /\ incident \in [Alerts -> IncidentState]
      /\ incidents \in [Signatures -> Alerts \cup {"none"}] /\ backwards \in BOOLEAN
      /\ \A a \in Alerts : /\ alert[a].stage \notin {"none", "dropped"} => Sig(a) \in Signatures
                           /\ alert[a].at <= minute
  BY DEF IncidenceInv, IncidentTypes
<1>1. ASSUME NEW n \in Alerts, NEW source \in AlertSources, NEW s \in Signatures,
             NEW critical \in Incidence!Critical(source), Incidence!Normalise(n, s, critical)
      PROVE  IncidenceInv'
  <2> DEFINE new == [sig |-> s, critical |-> critical, at |-> minute, stage |-> "taken"]
  <2>1. /\ alert[n].stage = "none" /\ alert' = [alert EXCEPT ![n] = new]
        /\ UNCHANGED <<incident, incidents, backwards, minute>>
    BY <1>1 DEF Incidence!Normalise
  <2>2. critical \in BOOLEAN
    BY DEF Incidence!Critical
  <2>3. new \in AlertState /\ new.sig \in Signatures /\ new.stage = "taken" /\ new.at = minute
    BY <1>0, <2>2 DEF AlertState
  <2> HIDE DEF new
  <2>4. /\ alert' \in [Alerts -> AlertState] /\ alert'[n] = new
        /\ \A a \in Alerts : a # n => alert'[a] = alert[a]
    BY <1>0, <2>1, <2>3
  <2>5. IncidentTypes'
    BY <1>0, <2>1, <2>3, <2>4 DEF IncidentTypes, Sig
  <2> QED BY <1>0, <2>1, <2>3, <2>4, <2>5, AlertsMove DEF InTime, Sig
<1>2. ASSUME NEW n \in Alerts, NEW to \in {"dropped", "told"},
             alert' = [alert EXCEPT ![n].stage = to],
             to = "dropped" => alert[n].stage = "none",
             to = "told" => alert[n].stage = "in",
             UNCHANGED <<incident, incidents, backwards, minute>>
      PROVE  IncidenceInv'
  <2>1. /\ alert' \in [Alerts -> AlertState]
        /\ \A a \in Alerts : /\ alert'[a].sig = alert[a].sig /\ alert'[a].at = alert[a].at
                             /\ alert'[a].critical = alert[a].critical
                             /\ alert'[a].stage = IF a = n THEN to ELSE alert[a].stage
    BY <1>0, <1>2 DEF AlertState
  <2>2. IncidentTypes'
    BY <1>0, <1>2, <2>1 DEF IncidentTypes, Sig
  <2> QED BY <1>0, <1>2, <2>1, <2>2, AlertsMove DEF InTime, Sig
<1>3. ASSUME NEW n \in Alerts, Incidence!Drop(n) PROVE IncidenceInv'
  BY <1>2, <1>3 DEF Incidence!Drop
<1>4. ASSUME NEW n \in Alerts, Incidence!EmitDetected(n) PROVE IncidenceInv'
  BY <1>2, <1>4 DEF Incidence!EmitDetected
<1>5. ASSUME NEW n \in Alerts, Incidence!Upsert(n) PROVE IncidenceInv'
  BY <1>5, MergeAlert, OpenIncident
<1>6. ASSUME Incidence!Tick PROVE IncidenceInv'
  <2>1. minute' = minute + 1 /\ UNCHANGED <<alert, incident, incidents, backwards>>
    BY <1>6 DEF Incidence!Tick
  <2>2. \A a \in Alerts : alert[a].at \in Nat
    BY <1>0 DEF AlertState
  <2>3. \A a \in Alerts : alert[a].at <= minute'
    BY <1>0, <2>1, <2>2
  <2>4. IncidentTypes'
    BY <1>0, <2>1, <2>3 DEF IncidentTypes, Sig
  <2> QED BY <1>0, <2>1, <2>4, AlertsMove DEF InTime, Sig
<1> QED BY <1>1, <1>3, <1>4, <1>5, <1>6, ResolveStep DEF Incidence!Next

(* What Services_proofs takes of incident-detection: the invariant holds   *)
(* at first, every step keeps it, and it implies what is promised.         *)
LEMMA IncidenceAlways ==
  ASSUME SignaturesNamed
  PROVE  /\ Incidence!Init => IncidenceInv
         /\ IncidenceInv /\ [Incidence!Next]_(Incidence!incidence) => IncidenceInv'
         /\ IncidenceInv => Incidence!OneIncident
<1>1. ASSUME Incidence!Init PROVE IncidenceInv
  <2>1. /\ Incidence!NoAlert \in AlertState /\ Incidence!NoAlert.stage = "none"
        /\ Incidence!NoAlert.at = 0
    BY DEF Incidence!NoAlert, AlertState
  <2>2. /\ Incidence!NoIncident \in IncidentState /\ Incidence!NoIncident.status = "none"
        /\ Incidence!NoIncident.events = {} /\ Incidence!NoIncident.critical = FALSE
    BY DEF Incidence!NoIncident, IncidentState
  <2>3. /\ alert = [a \in Alerts |-> Incidence!NoAlert]
        /\ incident = [a \in Alerts |-> Incidence!NoIncident]
        /\ incidents = [s \in Signatures |-> "none"] /\ backwards = FALSE /\ minute = 1
    BY <1>1 DEF Incidence!Init
  <2>4. IncidentTypes
    <3>1. alert \in [Alerts -> AlertState] /\ incident \in [Alerts -> IncidentState]
      BY <2>1, <2>2, <2>3
    <3>2. incidents \in [Signatures -> Alerts \cup {"none"}] /\ backwards \in BOOLEAN /\ minute \in Nat
      BY <2>3
    <3>3. \A a \in Alerts : alert[a].stage = "none" /\ alert[a].at = 0
      BY <2>1, <2>3
    <3> QED BY <2>3, <3>1, <3>2, <3>3 DEF IncidentTypes
  <2>5. \A a \in Alerts : ~Known(a) /\ ~InTime(a)
    BY <2>1, <2>2, <2>3 DEF Known, InTime
  <2>6. Evidence
    BY <2>2, <2>3, <2>5 DEF Evidence
  <2>7. Spaced
    BY <2>2, <2>3, <2>5 DEF Spaced, Known
  <2> QED BY <2>4, <2>6, <2>7 DEF IncidenceInv
<1>2. ASSUME IncidenceInv, UNCHANGED Incidence!incidence PROVE IncidenceInv'
  <2>1. UNCHANGED <<alert, incident, incidents, backwards, minute>>
    BY <1>2 DEF Incidence!incidence
  <2>2. IncidentTypes' /\ Evidence'
    BY <1>2, <2>1 DEF IncidenceInv, IncidentTypes, Evidence, InTime, Known, Sig
  <2>3. Spaced => Spaced'
    BY <2>1 DEF Spaced, Current, Known, Sig
  <2> QED BY <1>2, <2>1, <2>2, <2>3 DEF IncidenceInv
<1> QED BY <1>1, <1>2, IncidenceStep, IncidentsHold

-----------------------------------------------------------------------------
(* Symptoms                                                                *)

(* A probe fails so many times before it counts as down; a zero in the     *)
(* registry of the probes stands for the default, two.                     *)
ProbesDebounced == Debounce \in Nat \ {0} /\ MaxMade \in Nat

(* The streak of a probe is the failures its last checks end with, and the *)
(* probe is down while there are Debounce of them.                         *)
StreaksCounted ==
  /\ checks \in [Probes -> Seq(BOOLEAN)] /\ healthy \in [Probes -> BOOLEAN]
  /\ streak \in [Probes -> 0..Debounce]
  /\ \A p \in Probes :
       /\ streak[p] <= Len(checks[p]) /\ Len(checks[p]) <= Debounce
       /\ \A i \in 1..Len(checks[p]) : i > Len(checks[p]) - streak[p] => ~checks[p][i]
       /\ streak[p] < Len(checks[p]) => checks[p][Len(checks[p]) - streak[p]]
       /\ healthy[p] <=> streak[p] # Debounce

Sequenced(s) == s \in Seq({s[i] : i \in DOMAIN s})
IdsOf(s)  == {s[i].id : i \in DOMAIN s}
Apart(s)  == \A i, j \in DOMAIN s : s[i].id = s[j].id => i = j

(* An event has one place; those of the log emitter are in order, and what *)
(* it holds came after what it sent.                                       *)
EventsPlaced ==
  /\ Sequenced(feed) /\ Sequenced(buffered) /\ Sequenced(made) /\ Len(made) \in 0..MaxMade
  /\ Apart(feed) /\ Apart(buffered)
  /\ IdsOf(feed) \cup IdsOf(buffered) \cup missing = 1..Len(made)
  /\ IdsOf(feed) \cap IdsOf(buffered) = {}
  /\ (IdsOf(feed) \cup IdsOf(buffered)) \cap missing = {}

LogsInOrder ==
  /\ \A i \in DOMAIN buffered : buffered[i].emitter = "logs"
  /\ \A i, j \in DOMAIN buffered : i < j => buffered[i].id < buffered[j].id
  /\ \A i, j \in DOMAIN feed :
       i < j /\ feed[i].emitter = "logs" /\ feed[j].emitter = "logs" => feed[i].id < feed[j].id
  /\ \A i \in DOMAIN feed, j \in DOMAIN buffered :
       feed[i].emitter = "logs" => feed[i].id < buffered[j].id

Severely(e) == spawning /\ Symptom!Valid(e) /\ Symptom!Severe(e)

(* An event that is not behind the triager's position was given a session  *)
(* before an earlier stop only; nothing is known of what is not on the     *)
(* topic, and nothing but rejections of what is not valid.                 *)
TriageOf(i) ==
  /\ i <= position => decided[feed[i].id] # {}
  /\ sessions[feed[i].id] > 0 => Severely(feed[i])
  /\ sessions[feed[i].id] <= stops + (IF i <= position THEN 1 ELSE 0)
  /\ ~Symptom!Valid(feed[i]) => decided[feed[i].id] \subseteq {"rejected"}
  /\ feed[i].id \in dead => ~Symptom!Valid(feed[i]) /\ decided[feed[i].id] # {}
  /\ "spawn_session" \in decided[feed[i].id] => sessions[feed[i].id] > 0

EventsTriaged ==
  /\ committed \in Nat /\ from \in Nat /\ position \in Nat /\ upto \in Nat /\ stops \in Nat
  /\ committed <= from /\ from <= position /\ position <= upto /\ upto <= Len(feed)
  /\ decided \in [1..MaxMade -> SUBSET Symptom!Decisions] /\ sessions \in [1..MaxMade -> Nat]
  /\ \A n \in (1..MaxMade) \ IdsOf(feed) : decided[n] = {} /\ sessions[n] = 0 /\ n \notin dead
  /\ \A i \in 1..Len(feed) : TriageOf(i)

SymptomsInv == StreaksCounted /\ EventsPlaced /\ LogsInOrder /\ EventsTriaged

(* Append and Tail of a sequence of whatever.                              *)
LEMMA ListedGrows ==
  ASSUME NEW s, Sequenced(s), NEW e
  PROVE  /\ Sequenced(Append(s, e)) /\ Len(s) \in Nat /\ DOMAIN s = 1..Len(s)
         /\ DOMAIN Append(s, e) = 1..(Len(s) + 1)
         /\ Len(Append(s, e)) = Len(s) + 1
         /\ \A i \in 1..Len(s) : Append(s, e)[i] = s[i]
         /\ Append(s, e)[Len(s) + 1] = e
         /\ IdsOf(Append(s, e)) = IdsOf(s) \cup {e.id}
<1> DEFINE S == {s[i] : i \in DOMAIN s}
           T == S \cup {e}
           t == Append(s, e)
<1>1. s \in Seq(S) /\ e \in T
  BY DEF Sequenced
<1> HIDE DEF S
<1>2. s \in Seq(T) /\ Len(s) \in Nat /\ DOMAIN s = 1..Len(s)
  BY <1>1
<1> HIDE DEF T
<1>3. /\ t \in Seq(T) /\ Len(t) = Len(s) + 1 /\ t[Len(s) + 1] = e
      /\ DOMAIN t = 1..(Len(s) + 1) /\ \A i \in 1..Len(s) : t[i] = s[i]
  BY <1>1, <1>2
<1> HIDE DEF t
<1>4. t \in Seq({t[i] : i \in DOMAIN t})
  BY <1>3
<1>5. IdsOf(t) = IdsOf(s) \cup {e.id}
  BY <1>2, <1>3 DEF IdsOf
<1> QED BY <1>2, <1>3, <1>4, <1>5 DEF t, Sequenced

(* What is taken from the front leaves the rest in order.                 *)
LEMMA ListedShrinks ==
  ASSUME NEW s, Sequenced(s), s # <<>>
  PROVE  /\ Sequenced(Tail(s)) /\ Len(s) \in Nat \ {0} /\ DOMAIN s = 1..Len(s)
         /\ DOMAIN Tail(s) = 1..(Len(s) - 1) /\ Len(Tail(s)) = Len(s) - 1
         /\ Head(s) = s[1]
         /\ \A i \in 1..(Len(s) - 1) : Tail(s)[i] = s[i + 1]
<1> DEFINE S == {s[i] : i \in DOMAIN s}
           t == Tail(s)
<1>1. s \in Seq(S)
  BY DEF Sequenced
<1> HIDE DEF S
<1>2. Len(s) \in Nat \ {0} /\ DOMAIN s = 1..Len(s) /\ Head(s) = s[1]
  BY <1>1
<1>3. /\ t \in Seq(S) /\ Len(t) = Len(s) - 1 /\ DOMAIN t = 1..(Len(s) - 1)
      /\ \A i \in 1..(Len(s) - 1) : t[i] = s[i + 1]
  BY <1>1, <1>2
<1> HIDE DEF t
<1>4. t \in Seq({t[i] : i \in DOMAIN t})
  BY <1>3
<1> QED BY <1>2, <1>3, <1>4 DEF t, Sequenced

(* Nothing is listed.                                                     *)
LEMMA ListedEmpty == Sequenced(<<>>) /\ IdsOf(<<>>) = {} /\ Apart(<<>>)
BY DEF Sequenced, IdsOf, Apart

-----------------------------------------------------------------------------
(* Probes                                                                  *)

(* The same of a sequence over a set.                                      *)
LEMMA OneMore ==
  ASSUME NEW S, NEW s \in Seq(S), NEW e \in S
  PROVE  /\ Append(s, e) \in Seq(S) /\ Len(Append(s, e)) = Len(s) + 1
         /\ Append(s, e)[Len(s) + 1] = e
         /\ \A i \in 1..Len(s) : Append(s, e)[i] = s[i]
OBVIOUS

(* And of its tail.                                                        *)
LEMMA OneLess ==
  ASSUME NEW S, NEW s \in Seq(S), s # <<>>
  PROVE  /\ Tail(s) \in Seq(S) /\ Len(Tail(s)) = Len(s) - 1
         /\ \A i \in 1..(Len(s) - 1) : Tail(s)[i] = s[i + 1]
OBVIOUS


(* A check keeps the streaks, and the state follows them.                  *)
LEMMA CheckStep ==
  ASSUME ProbesDebounced, StreaksCounted, NEW p \in Probes, Symptom!Check(p)
  PROVE  StreaksCounted'
<1> DEFINE Turns(ok) == IF ok THEN ~healthy[p] ELSE healthy[p] /\ Symptom!Streak(p, ok) >= Debounce
           last == IF Len(checks[p]) = Debounce THEN Tail(checks[p]) ELSE checks[p]
<1>1. PICK ok \in BOOLEAN :
        /\ streak' = [streak EXCEPT ![p] = Symptom!Streak(p, ok)]
        /\ checks' = [checks EXCEPT ![p] = Append(last, ok)]
        /\ healthy' = [healthy EXCEPT ![p] = IF Turns(ok) THEN ok ELSE @]
  BY Zenon DEF Symptom!Check
<1> DEFINE c == checks[p]
           k == streak[p]
           l == Symptom!Streak(p, ok)
           d == Append(last, ok)
           n == Len(c)
           g == IF n = Debounce THEN 1 ELSE 0
<1>2. /\ c \in Seq(BOOLEAN) /\ n \in 0..Debounce /\ k \in 0..n /\ g \in {0, 1}
      /\ \A i \in 1..n : i > n - k => ~c[i]
      /\ k < n => c[n - k]
      /\ healthy[p] <=> k # Debounce
  BY DEF StreaksCounted
<1>3. l = IF ok THEN 0 ELSE IF k = Debounce THEN Debounce ELSE k + 1
  BY DEF Symptom!Streak
<1>4. /\ last \in Seq(BOOLEAN) /\ Len(last) = n - g
      /\ \A i \in 1..(n - g) : last[i] = c[i + g]
  <2>1. CASE n = Debounce
    <3>1. c # <<>> /\ last = Tail(c) /\ g = 1
      BY <2>1 DEF ProbesDebounced
    <3> HIDE DEF last, g, c
    <3> QED BY <1>2, <3>1, OneLess, Zenon
  <2>2. CASE n # Debounce
    <3>1. last = c /\ g = 0
      BY <2>2
    <3> HIDE DEF last, g, c
    <3> QED BY <1>2, <3>1
  <2> QED BY <2>1, <2>2
<1> HIDE DEF last
<1>5. /\ d \in Seq(BOOLEAN) /\ Len(d) = n - g + 1 /\ d[n - g + 1] = ok
      /\ \A i \in 1..(n - g) : d[i] = c[i + g]
  <2>1. /\ d \in Seq(BOOLEAN) /\ Len(d) = Len(last) + 1 /\ d[Len(last) + 1] = ok
        /\ \A i \in 1..Len(last) : d[i] = last[i]
    BY <1>4, OneMore, ZenonT(60)
  <2> QED BY <1>4, <2>1, Zenon
<1>6. g = 1 <=> n = Debounce
  OBVIOUS
<1>7. checks'[p] = d /\ streak'[p] = l
  BY <1>1 DEF StreaksCounted
<1>8. healthy'[p] <=> l # Debounce
  <2>1. healthy'[p] = IF Turns(ok) THEN ok ELSE healthy[p]
    BY <1>1, Zenon DEF StreaksCounted
  <2>2. CASE ok
    <3>1. healthy'[p]
      BY <2>1, <2>2, Zenon
    <3>2. l # Debounce
      BY <1>3, <2>2 DEF ProbesDebounced
    <3> QED BY <3>1, <3>2
  <2>3. CASE ~ok
    <3>1. healthy'[p] <=> healthy[p] /\ ~(l >= Debounce)
      BY <2>1, <2>3, Zenon
    <3>2. l >= Debounce <=> l = Debounce
      BY <1>2, <1>3, <2>3 DEF ProbesDebounced
    <3>3. k = Debounce => l = Debounce
      BY <1>3, <2>3
    <3> QED BY <1>2, <3>1, <3>2, <3>3, Zenon
  <2> QED BY <2>2, <2>3
<1> HIDE DEF c, k, l, d, n, g, Turns
<1> DEFINE x == Len(d)
<1>14. x = n - g + 1 /\ x \in 1..Debounce /\ l \in 0..x
  BY <1>2, <1>3, <1>5, <1>6 DEF ProbesDebounced
<1> HIDE DEF x
<1>9. /\ \A i \in 1..x : i > x - l => ~d[i]
      /\ l < x => d[x - l]
  <2>1. CASE ok
    <3>1. l = 0 /\ x - l = x /\ d[x] /\ \A i \in 1..x : ~(i > x - l)
      <4>1. l = 0 
        BY <1>3, <2>1, Zenon
      <4>2. x - l = x /\ \A i \in 1..x : ~(i > x - l)
        BY <4>1, <1>14
      <4>3. d[x]
        BY <2>1, <1>14, <1>5, Zenon
      <4> QED BY <4>1, <4>2, <4>3
    <3> QED BY <3>1, Zenon
  <2>2. CASE ~ok
    <3>1. ASSUME NEW i \in 1..x, i > x - l PROVE ~d[i]
      <4>1. CASE i = x
        BY <1>5, <1>14, <2>2, <4>1, Zenon
      <4>2. CASE i # x
        <5>1. i \in 1..(n - g) /\ i + g \in 1..n /\ i + g > n - k
          BY <1>2, <1>3, <1>6, <1>14, <2>2, <3>1, <4>2
        <5> QED BY <1>2, <1>5, <5>1, Zenon
      <4> QED BY <4>1, <4>2
    <3>2. ASSUME l < x PROVE d[x - l]
      <4>1. k # Debounce /\ l = k + 1 /\ k < n - g
        BY <1>2, <1>3, <1>6, <1>14, <2>2, <3>2
      <4>2. x - l \in 1..(n - g) /\ x - l + g = n - k /\ k < n
        BY <1>2, <1>14, <4>1
      <4>3. d[x - l] = c[n - k] /\ c[n - k]
        BY <1>2, <1>5, <4>2, Zenon
      <4> QED BY <4>3, Zenon
    <3> QED BY <3>1, <3>2
  <2> QED BY <2>1, <2>2
<1>10. checks' \in [Probes -> Seq(BOOLEAN)] /\ \A q \in Probes \ {p} : checks'[q] = checks[q]
  BY <1>1, <1>5 DEF StreaksCounted, d
<1>11. streak' \in [Probes -> 0..Debounce] /\ \A q \in Probes \ {p} : streak'[q] = streak[q]
  <2>1. l \in 0..Debounce
    BY <1>14, <1>2 DEF ProbesDebounced
  <2> QED BY <1>1, <2>1 DEF StreaksCounted, l
<1>12. healthy' \in [Probes -> BOOLEAN] /\ \A q \in Probes \ {p} : healthy'[q] = healthy[q]
  BY <1>1, Zenon DEF StreaksCounted
<1>13. ASSUME NEW q \in Probes
       PROVE  /\ streak'[q] <= Len(checks'[q]) /\ Len(checks'[q]) <= Debounce
              /\ \A i \in 1..Len(checks'[q]) : i > Len(checks'[q]) - streak'[q] => ~checks'[q][i]
              /\ streak'[q] < Len(checks'[q]) => checks'[q][Len(checks'[q]) - streak'[q]]
              /\ healthy'[q] <=> streak'[q] # Debounce
  <2>1. CASE q = p
    <3>1. x <= Debounce /\ l <= x /\ x = Len(checks'[q]) /\ streak'[q] = l
      BY <1>7, <1>14, <2>1 DEF x
    <3> QED BY <1>7, <1>8, <1>9, <2>1, <3>1, Zenon
  <2>2. CASE q # p
    <3>1. streak'[q] = streak[q] /\ checks'[q] = checks[q] /\ healthy'[q] = healthy[q]
      BY <1>10, <1>11, <1>12, <2>2
    <3> QED BY <3>1, Zenon DEF StreaksCounted
  <2> QED BY <2>1, <2>2
<1> QED BY <1>10, <1>11, <1>12, <1>13, Zenon DEF StreaksCounted

-----------------------------------------------------------------------------
(* Events                                                                  *)

(* An event that is on neither sequence extends one of them.               *)
LEMMA ApartGrows ==
  ASSUME NEW s, Sequenced(s), Apart(s), NEW e, e.id \notin IdsOf(s)
  PROVE  Apart(Append(s, e))
<1> DEFINE t == Append(s, e)
<1>1. /\ Len(s) \in Nat /\ DOMAIN s = 1..Len(s) /\ DOMAIN t = 1..(Len(s) + 1)
      /\ \A i \in 1..Len(s) : t[i] = s[i]
      /\ t[Len(s) + 1] = e
  BY ListedGrows
<1> HIDE DEF t
<1>2. \A i \in 1..Len(s) : s[i].id # e.id
  BY <1>1 DEF IdsOf
<1>3. ASSUME NEW i \in DOMAIN t, NEW j \in DOMAIN t, t[i].id = t[j].id PROVE i = j
  BY <1>1, <1>2, <1>3 DEF Apart
<1> QED BY <1>3 DEF Apart, t

(* The places of the events after the next one is made.                    *)
LEMMA EventMade ==
  ASSUME ProbesDebounced, EventsPlaced, NEW e, e.id = Len(made) + 1, Symptom!Made(e)
  PROVE  /\ Sequenced(made') /\ Len(made') = Len(made) + 1 /\ Len(made') \in 0..MaxMade
         /\ e.id \notin IdsOf(feed) \cup IdsOf(buffered) \cup missing
         /\ IdsOf(feed) \cup IdsOf(buffered) \cup missing \cup {e.id} = 1..Len(made')
         /\ e.id \in 1..MaxMade
         /\ \A i \in DOMAIN feed : feed[i].id \in 1..Len(made)
         /\ \A i \in DOMAIN buffered : buffered[i].id \in 1..Len(made)
<1>1. made' = Append(made, e.emitter) /\ Len(made) < MaxMade
  BY DEF Symptom!Made
<1>2. Sequenced(made) /\ Len(made) \in 0..MaxMade
  BY DEF EventsPlaced
<1>3. Sequenced(made') /\ Len(made') = Len(made) + 1
  BY <1>1, <1>2, ListedGrows, Zenon
<1>4. IdsOf(feed) \cup IdsOf(buffered) \cup missing = 1..Len(made)
  BY DEF EventsPlaced
<1>5. /\ \A i \in DOMAIN feed : feed[i].id \in IdsOf(feed)
      /\ \A i \in DOMAIN buffered : buffered[i].id \in IdsOf(buffered)
  BY DEF IdsOf
<1>6. Len(made') \in 0..MaxMade /\ e.id \in 1..MaxMade
  BY <1>1, <1>2, <1>3 DEF ProbesDebounced
<1>7. e.id \notin 1..Len(made) /\ (1..Len(made)) \cup {e.id} = 1..Len(made')
  BY <1>2, <1>3
<1> QED BY <1>3, <1>4, <1>5, <1>6, <1>7, Zenon

(* The log emitter is not the one that publishes.                          *)
LEMMA OthersPublish ==
  ASSUME ProbesDebounced, EventsPlaced, LogsInOrder,
         NEW e, e.id = Len(made) + 1, e.emitter # "logs",
         Symptom!Made(e), Symptom!Publish(e), buffered' = buffered
  PROVE  EventsPlaced' /\ LogsInOrder'
<1> DEFINE A == IdsOf(feed)
           B == IdsOf(buffered)
<1>1. /\ Sequenced(made') /\ Len(made') = Len(made) + 1 /\ Len(made') \in 0..MaxMade
      /\ e.id \notin A \cup B \cup missing
      /\ A \cup B \cup missing \cup {e.id} = 1..Len(made')
  BY EventMade, Zenon
<1>2. IdsOf(buffered') = B /\ Sequenced(buffered') /\ Apart(buffered')
  BY DEF EventsPlaced
<1>3. /\ Sequenced(feed) /\ Apart(feed) /\ A \cap B = {} /\ (A \cup B) \cap missing = {}
  BY DEF EventsPlaced
<1>4. CASE feed' = Append(feed, e) /\ missing' = missing
  <2>1. /\ Sequenced(feed') /\ IdsOf(feed') = A \cup {e.id} /\ Apart(feed')
    BY <1>1, <1>3, <1>4, ListedGrows, ApartGrows, Zenon
  <2>2. /\ Len(feed) \in Nat /\ DOMAIN feed = 1..Len(feed) /\ DOMAIN feed' = 1..(Len(feed) + 1)
        /\ \A i \in 1..Len(feed) : feed'[i] = feed[i]
        /\ feed'[Len(feed) + 1] = e
    BY <1>3, <1>4, ListedGrows
  <2>3. EventsPlaced'
    <3> HIDE DEF A, B
    <3>1. /\ (A \cup {e.id}) \cup B \cup missing = 1..Len(made')
          /\ (A \cup {e.id}) \cap B = {} /\ ((A \cup {e.id}) \cup B) \cap missing = {}
      BY <1>1, <1>3, Zenon
    <3> QED BY <1>1, <1>2, <1>4, <2>1, <3>1, Zenon DEF EventsPlaced
  <2>4. LogsInOrder'
    <3>1. \A i \in DOMAIN feed' :
            feed'[i].emitter = "logs" => i \in DOMAIN feed /\ feed'[i] = feed[i]
      BY <2>2
    <3> QED BY <3>1, Zenon DEF LogsInOrder
  <2> QED BY <2>3, <2>4
<1>5. CASE missing' = missing \cup {e.id} /\ feed' = feed
  <2>1. IdsOf(feed') = A /\ Sequenced(feed') /\ Apart(feed')
    BY <1>3, <1>5
  <2>2. EventsPlaced'
    <3> HIDE DEF A, B
    <3>1. A \cup B \cup missing' = 1..Len(made') /\ (A \cup B) \cap missing' = {}
      BY <1>1, <1>3, <1>5, Zenon
    <3> QED BY <1>1, <1>2, <1>3, <2>1, <3>1, Zenon DEF EventsPlaced
  <2>3. LogsInOrder'
    BY <1>5, Zenon DEF LogsInOrder
  <2> QED BY <2>2, <2>3
<1> QED BY <1>4, <1>5, Zenon DEF Symptom!Publish

(* The log emitter offers an event to its buffer.                          *)
LEMMA LogsOffer ==
  ASSUME ProbesDebounced, EventsPlaced, LogsInOrder,
         NEW e, e.id = Len(made) + 1, e.emitter = "logs",
         Symptom!Made(e), Symptom!Offer(e), feed' = feed
  PROVE  EventsPlaced' /\ LogsInOrder'
<1> DEFINE A == IdsOf(feed)
           B == IdsOf(buffered)
<1>1. /\ Sequenced(made') /\ Len(made') = Len(made) + 1 /\ Len(made') \in 0..MaxMade
      /\ e.id \notin A \cup B \cup missing
      /\ A \cup B \cup missing \cup {e.id} = 1..Len(made')
      /\ \A i \in DOMAIN feed : feed[i].id \in 1..Len(made)
      /\ \A i \in DOMAIN buffered : buffered[i].id \in 1..Len(made)
  BY EventMade, Zenon
<1>2. IdsOf(feed') = A /\ Sequenced(feed') /\ Apart(feed')
  BY DEF EventsPlaced
<1>3. /\ Sequenced(buffered) /\ Apart(buffered) /\ A \cap B = {} /\ (A \cup B) \cap missing = {}
  BY DEF EventsPlaced
<1>4. CASE buffered' = Append(buffered, e) /\ missing' = missing
  <2>1. /\ Sequenced(buffered') /\ IdsOf(buffered') = B \cup {e.id} /\ Apart(buffered')
    BY <1>1, <1>3, <1>4, ListedGrows, ApartGrows, Zenon
  <2>2. /\ Len(buffered) \in Nat /\ DOMAIN buffered = 1..Len(buffered)
        /\ DOMAIN buffered' = 1..(Len(buffered) + 1)
        /\ \A i \in 1..Len(buffered) : buffered'[i] = buffered[i]
        /\ buffered'[Len(buffered) + 1] = e
    BY <1>3, <1>4, ListedGrows
  <2>3. EventsPlaced'
    <3> HIDE DEF A, B
    <3>1. /\ A \cup (B \cup {e.id}) \cup missing = 1..Len(made')
          /\ A \cap (B \cup {e.id}) = {} /\ (A \cup (B \cup {e.id})) \cap missing = {}
      BY <1>1, <1>3, Zenon
    <3> QED BY <1>1, <1>2, <1>4, <2>1, <3>1, Zenon DEF EventsPlaced
  <2>4. LogsInOrder'
    <3>1. \A i \in DOMAIN buffered' :
            \/ i \in DOMAIN buffered /\ buffered'[i] = buffered[i]
            \/ i = Len(buffered) + 1 /\ buffered'[i] = e
      BY <2>2
    <3>2. \A i \in DOMAIN buffered' : buffered'[i].emitter = "logs"
      BY <3>1, Zenon DEF LogsInOrder
    <3>3. \A i, j \in DOMAIN buffered' : i < j => buffered'[i].id < buffered'[j].id
      <4> SUFFICES ASSUME NEW i \in DOMAIN buffered', NEW j \in DOMAIN buffered', i < j
                   PROVE  buffered'[i].id < buffered'[j].id
        OBVIOUS
      <4>1. i \in DOMAIN buffered /\ buffered'[i] = buffered[i]
        BY <2>2
      <4>2. CASE j \in DOMAIN buffered /\ buffered'[j] = buffered[j]
        BY <4>1, <4>2, Zenon DEF LogsInOrder
      <4>3. CASE buffered'[j] = e
        <5>1. buffered[i].id \in 1..Len(made) /\ Len(made) \in Nat
          BY <1>1, <4>1 DEF EventsPlaced
        <5> QED BY <4>1, <4>3, <5>1
      <4> QED BY <3>1, <4>2, <4>3
    <3>4. \A i \in DOMAIN feed', j \in DOMAIN buffered' :
            feed'[i].emitter = "logs" => feed'[i].id < buffered'[j].id
      <4> SUFFICES ASSUME NEW i \in DOMAIN feed, NEW j \in DOMAIN buffered',
                          feed[i].emitter = "logs"
                   PROVE  feed[i].id < buffered'[j].id
        OBVIOUS
      <4>1. CASE j \in DOMAIN buffered /\ buffered'[j] = buffered[j]
        BY <4>1, Zenon DEF LogsInOrder
      <4>2. CASE buffered'[j] = e
        <5>1. feed[i].id \in 1..Len(made) /\ Len(made) \in Nat
          BY <1>1 DEF EventsPlaced
        <5> QED BY <4>2, <5>1
      <4> QED BY <3>1, <4>1, <4>2
    <3> QED BY <3>2, <3>3, <3>4, Zenon DEF LogsInOrder
  <2> QED BY <2>3, <2>4
<1>5. CASE missing' = missing \cup {e.id} /\ buffered' = buffered
  <2>1. IdsOf(buffered') = B /\ Sequenced(buffered') /\ Apart(buffered')
    BY <1>3, <1>5
  <2>2. EventsPlaced'
    <3> HIDE DEF A, B
    <3>1. A \cup B \cup missing' = 1..Len(made') /\ (A \cup B) \cap missing' = {}
      BY <1>1, <1>3, <1>5, Zenon
    <3> QED BY <1>1, <1>2, <1>3, <2>1, <3>1, Zenon DEF EventsPlaced
  <2>3. LogsInOrder'
    BY <1>5, Zenon DEF LogsInOrder
  <2> QED BY <2>2, <2>3
<1> QED BY <1>4, <1>5, Zenon DEF Symptom!Offer

(* The log emitter publishes the first event of its buffer.                *)
LEMMA LogsDrain ==
  ASSUME EventsPlaced, LogsInOrder, Symptom!Drain
  PROVE  /\ EventsPlaced' /\ LogsInOrder'
         /\ Head(buffered).id \in IdsOf(buffered)
<1> DEFINE e == Head(buffered)
           n == Len(buffered)
<1>1. /\ buffered # <<>> /\ buffered' = Tail(buffered) /\ made' = made
      /\ \/ feed' = Append(feed, e) /\ missing' = missing
         \/ missing' = missing \cup {e.id} /\ feed' = feed
  BY Zenon DEF Symptom!Drain, Symptom!Publish
<1>2. /\ Sequenced(feed) /\ Sequenced(buffered) /\ Apart(feed) /\ Apart(buffered)
      /\ IdsOf(feed) \cap IdsOf(buffered) = {}
      /\ IdsOf(feed) \cup IdsOf(buffered) \cup missing = 1..Len(made)
      /\ (IdsOf(feed) \cup IdsOf(buffered)) \cap missing = {}
  BY DEF EventsPlaced
<1>3. /\ Sequenced(buffered') /\ n \in Nat \ {0} /\ DOMAIN buffered = 1..n
      /\ DOMAIN buffered' = 1..(n - 1) /\ e = buffered[1]
      /\ \A i \in 1..(n - 1) : buffered'[i] = buffered[i + 1]
  BY <1>1, <1>2, ListedShrinks
<1> HIDE DEF e, n
<1>4. \A i \in DOMAIN buffered' : i + 1 \in DOMAIN buffered /\ buffered'[i] = buffered[i + 1]
  BY <1>3
<1>5. Apart(buffered')
  <2> SUFFICES ASSUME NEW i \in DOMAIN buffered', NEW j \in DOMAIN buffered',
                      buffered'[i].id = buffered'[j].id
               PROVE  i = j
    BY DEF Apart
  <2>1. i + 1 = j + 1
    BY <1>2, <1>4 DEF Apart
  <2> QED BY <2>1, <1>3
<1>6. IdsOf(buffered) = IdsOf(buffered') \cup {e.id} /\ e.id \notin IdsOf(buffered')
  <2>1. ASSUME NEW x \in IdsOf(buffered) PROVE x \in IdsOf(buffered') \cup {e.id}
    <3>1. PICK i \in DOMAIN buffered : x = buffered[i].id
      BY DEF IdsOf
    <3>2. CASE i = 1
      BY <1>3, <3>1, <3>2
    <3>3. CASE i # 1
      <4>1. i - 1 \in DOMAIN buffered' /\ buffered'[i - 1] = buffered[i]
        BY <1>3, <3>1, <3>3
      <4> QED BY <3>1, <4>1 DEF IdsOf
    <3> QED BY <3>2, <3>3
  <2>2. \A i \in DOMAIN buffered' : buffered'[i].id \in IdsOf(buffered) /\ buffered'[i].id # e.id
    <3> SUFFICES ASSUME NEW i \in DOMAIN buffered'
                 PROVE  buffered'[i].id \in IdsOf(buffered) /\ buffered'[i].id # e.id
      OBVIOUS
    <3>1. i + 1 \in DOMAIN buffered /\ buffered'[i] = buffered[i + 1]
          /\ i + 1 # 1 /\ 1 \in DOMAIN buffered
      BY <1>3
    <3> QED BY <1>2, <1>3, <3>1 DEF Apart, IdsOf
  <2>3. e.id \in IdsOf(buffered)
    BY <1>3 DEF IdsOf
  <2> QED BY <2>1, <2>2, <2>3 DEF IdsOf
<1>7. \A i \in DOMAIN buffered' : e.id < buffered'[i].id /\ buffered'[i].emitter = "logs"
  BY <1>3, <1>4 DEF LogsInOrder
<1>8. \A i, j \in DOMAIN buffered' : i < j => buffered'[i].id < buffered'[j].id
  <2> SUFFICES ASSUME NEW i \in DOMAIN buffered', NEW j \in DOMAIN buffered', i < j
               PROVE  buffered'[i].id < buffered'[j].id
    OBVIOUS
  <2>1. i + 1 < j + 1
    BY <1>3
  <2> QED BY <1>4, <2>1, Zenon DEF LogsInOrder
<1>9. CASE feed' = Append(feed, e) /\ missing' = missing
  <2>1. /\ Sequenced(feed') /\ IdsOf(feed') = IdsOf(feed) \cup {e.id} /\ Apart(feed')
    BY <1>2, <1>6, <1>9, ListedGrows, ApartGrows, Zenon
  <2>2. /\ Len(feed) \in Nat /\ DOMAIN feed = 1..Len(feed) /\ DOMAIN feed' = 1..(Len(feed) + 1)
        /\ \A i \in 1..Len(feed) : feed'[i] = feed[i]
        /\ feed'[Len(feed) + 1] = e
    BY <1>2, <1>9, ListedGrows
  <2>3. EventsPlaced'
    <3>1. /\ IdsOf(feed') \cup IdsOf(buffered') \cup missing' = 1..Len(made')
          /\ IdsOf(feed') \cap IdsOf(buffered') = {}
          /\ (IdsOf(feed') \cup IdsOf(buffered')) \cap missing' = {}
      BY <1>1, <1>2, <1>6, <1>9, <2>1, Zenon
    <3> QED BY <1>1, <1>3, <1>5, <2>1, <3>1, Zenon DEF EventsPlaced
  <2>4. \A i \in DOMAIN feed' : \/ i \in DOMAIN feed /\ feed'[i] = feed[i]
                                \/ i = Len(feed) + 1 /\ feed'[i] = e
    BY <2>2
  <2>5. \A i, j \in DOMAIN feed' :
          i < j /\ feed'[i].emitter = "logs" /\ feed'[j].emitter = "logs"
            => feed'[i].id < feed'[j].id
    <3> SUFFICES ASSUME NEW i \in DOMAIN feed', NEW j \in DOMAIN feed', i < j,
                        feed'[i].emitter = "logs", feed'[j].emitter = "logs"
                 PROVE  feed'[i].id < feed'[j].id
      OBVIOUS
    <3>1. i \in DOMAIN feed /\ feed'[i] = feed[i]
      BY <2>2
    <3>2. CASE j \in DOMAIN feed /\ feed'[j] = feed[j]
      BY <3>1, <3>2, Zenon DEF LogsInOrder
    <3>3. CASE feed'[j] = e
      <4>1. 1 \in DOMAIN buffered
        BY <1>3
      <4> QED BY <1>3, <3>1, <3>3, <4>1, Zenon DEF LogsInOrder
    <3> QED BY <2>4, <3>2, <3>3
  <2>6. \A i \in DOMAIN feed', j \in DOMAIN buffered' :
          feed'[i].emitter = "logs" => feed'[i].id < buffered'[j].id
    <3> SUFFICES ASSUME NEW i \in DOMAIN feed', NEW j \in DOMAIN buffered',
                        feed'[i].emitter = "logs"
                 PROVE  feed'[i].id < buffered'[j].id
      OBVIOUS
    <3>1. CASE i \in DOMAIN feed /\ feed'[i] = feed[i]
      BY <1>4, <3>1, Zenon DEF LogsInOrder
    <3>2. CASE feed'[i] = e
      BY <1>7, <3>2, Zenon
    <3> QED BY <2>4, <3>1, <3>2
  <2>7. LogsInOrder'
    BY <1>7, <1>8, <2>5, <2>6, Zenon DEF LogsInOrder
  <2> QED BY <2>3, <2>7, <1>6, Zenon DEF e
<1>10. CASE missing' = missing \cup {e.id} /\ feed' = feed
  <2>1. IdsOf(feed') = IdsOf(feed) /\ Sequenced(feed') /\ Apart(feed')
    BY <1>2, <1>10
  <2>2. EventsPlaced'
    <3>1. /\ IdsOf(feed') \cup IdsOf(buffered') \cup missing' = 1..Len(made')
          /\ IdsOf(feed') \cap IdsOf(buffered') = {}
          /\ (IdsOf(feed') \cup IdsOf(buffered')) \cap missing' = {}
      BY <1>1, <1>2, <1>6, <1>10, <2>1, Zenon
    <3> QED BY <1>1, <1>3, <1>5, <2>1, <3>1, Zenon DEF EventsPlaced
  <2>3. LogsInOrder'
    <3>1. \A i \in DOMAIN feed, j \in DOMAIN buffered' :
            feed[i].emitter = "logs" => feed[i].id < buffered'[j].id
      BY <1>4, Zenon DEF LogsInOrder
    <3> QED BY <1>7, <1>8, <1>10, <3>1, Zenon DEF LogsInOrder
  <2> QED BY <2>2, <2>3, <1>6, Zenon DEF e
<1> QED BY <1>1, <1>9, <1>10, Zenon DEF e

(* A killed log emitter has its buffer missing.                            *)
LEMMA LogsKilled ==
  ASSUME EventsPlaced, LogsInOrder, buffered' = <<>>, feed' = feed, made' = made,
         missing' = missing \cup IdsOf(buffered)
  PROVE  EventsPlaced' /\ LogsInOrder'
<1>1. IdsOf(buffered') = {} /\ Sequenced(buffered') /\ Apart(buffered')
  BY ListedEmpty
<1>2. IdsOf(feed') = IdsOf(feed) /\ Sequenced(feed') /\ Apart(feed') /\ Sequenced(made')
  BY DEF EventsPlaced
<1>3. /\ IdsOf(feed') \cup IdsOf(buffered') \cup missing' = 1..Len(made')
      /\ (IdsOf(feed') \cup IdsOf(buffered')) \cap missing' = {}
  BY <1>1, <1>2, Zenon DEF EventsPlaced
<1>4. EventsPlaced'
  BY <1>1, <1>2, <1>3 DEF EventsPlaced
<1>5. DOMAIN buffered' = {}
  OBVIOUS
<1>6. LogsInOrder'
  BY <1>5, Zenon DEF LogsInOrder
<1> QED BY <1>4, <1>6

-----------------------------------------------------------------------------
(* The triager                                                             *)

(* Every event of the topic has its own number.                            *)
LEMMA FeedIds ==
  ASSUME ProbesDebounced, EventsPlaced
  PROVE  /\ Sequenced(feed) /\ Len(feed) \in Nat /\ DOMAIN feed = 1..Len(feed)
         /\ \A i \in 1..Len(feed) : feed[i].id \in 1..MaxMade /\ feed[i].id \in IdsOf(feed)
         /\ \A i, j \in 1..Len(feed) : feed[i].id = feed[j].id => i = j
<1>1. Sequenced(feed) /\ Len(feed) \in Nat /\ DOMAIN feed = 1..Len(feed)
  BY ListedGrows DEF EventsPlaced
<1>2. \A i \in 1..Len(feed) : feed[i].id \in IdsOf(feed)
  BY <1>1 DEF IdsOf
<1>3. IdsOf(feed) \subseteq 1..Len(made) /\ Len(made) \in 0..MaxMade
  BY DEF EventsPlaced
<1>4. 1..Len(made) \subseteq 1..MaxMade
  BY <1>3 DEF ProbesDebounced
<1>5. \A i, j \in 1..Len(feed) : feed[i].id = feed[j].id => i = j
  BY <1>1 DEF EventsPlaced, Apart
<1> QED BY <1>1, <1>2, <1>3, <1>4, <1>5, Zenon

(* An event arrives of which nothing is known.                             *)
LEMMA FeedGrows ==
  ASSUME EventsPlaced, EventsTriaged, NEW e, feed' = Append(feed, e),
         e.id \in (1..MaxMade) \ IdsOf(feed), UNCHANGED <<Symptom!triager, stops>>
  PROVE  EventsTriaged'
<1>1. /\ Sequenced(feed) /\ Len(feed) \in Nat /\ DOMAIN feed = 1..Len(feed)
      /\ Len(feed') = Len(feed) + 1 /\ feed'[Len(feed) + 1] = e
      /\ \A i \in 1..Len(feed) : feed'[i] = feed[i]
      /\ IdsOf(feed') = IdsOf(feed) \cup {e.id}
  <2>1. Sequenced(feed)
    BY DEF EventsPlaced
  <2>2. IdsOf(feed') = IdsOf(feed) \cup {e.id}
    BY <2>1, ListedGrows, Zenon
  <2> QED BY <2>1, <2>2, ListedGrows
<1>2. /\ committed' = committed /\ from' = from /\ upto' = upto /\ position' = position
      /\ spawning' = spawning /\ dead' = dead /\ decided' = decided /\ sessions' = sessions
      /\ stops' = stops
  BY DEF Symptom!triager
<1>3. \A i \in 1..Len(feed) : TriageOf(i)'
  <2> SUFFICES ASSUME NEW i \in 1..Len(feed) PROVE TriageOf(i)'
    OBVIOUS
  <2>1. feed'[i] = feed[i] /\ TriageOf(i)
    BY <1>1 DEF EventsTriaged
  <2> QED BY <1>2, <2>1, Zenon DEF TriageOf, Severely
<1>4. ASSUME NEW i, i = Len(feed) + 1 PROVE TriageOf(i)'
  <2>1. decided[e.id] = {} /\ sessions[e.id] = 0 /\ e.id \notin dead /\ ~(i <= position)
    BY <1>1, <1>4 DEF EventsTriaged
  <2>2. stops \in Nat /\ ~(0 > 0) /\ 0 <= stops
    BY DEF EventsTriaged
  <2> QED BY <1>1, <1>2, <1>4, <2>1, <2>2 DEF TriageOf
<1>5. \A i \in 1..Len(feed') : TriageOf(i)'
  BY <1>1, <1>3, <1>4
<1> QED BY <1>1, <1>2, <1>5 DEF EventsTriaged

(* Nothing arrives.                                                        *)
LEMMA FeedStays ==
  ASSUME ProbesDebounced, EventsPlaced, EventsTriaged, feed' = feed, UNCHANGED Symptom!triager,
         stops' \in Nat, stops <= stops'
  PROVE  EventsTriaged'
<1>1. /\ committed' = committed /\ from' = from /\ upto' = upto /\ position' = position
      /\ spawning' = spawning /\ dead' = dead /\ decided' = decided /\ sessions' = sessions
  BY DEF Symptom!triager
<1>2. \A i \in 1..Len(feed) : sessions[feed[i].id] <= stops' + (IF i <= position THEN 1 ELSE 0)
  <2> SUFFICES ASSUME NEW i \in 1..Len(feed)
               PROVE  sessions[feed[i].id] <= stops' + (IF i <= position THEN 1 ELSE 0)
    OBVIOUS
  <2>1. sessions[feed[i].id] <= stops + (IF i <= position THEN 1 ELSE 0)
    BY DEF EventsTriaged, TriageOf
  <2>2. sessions[feed[i].id] \in Nat /\ stops \in Nat
    BY FeedIds DEF EventsTriaged
  <2> QED BY <2>1, <2>2
<1>3. \A i \in 1..Len(feed) : TriageOf(i)'
  BY <1>1, <1>2 DEF EventsTriaged, TriageOf, Severely
<1> QED BY <1>1, <1>3 DEF EventsTriaged

(* The event behind the position is handled, and a session may be opened   *)
(* for it: its decision is noted, or the triager stops before.             *)
LEMMA EventHandled ==
  ASSUME EventsPlaced, EventsTriaged, ProbesDebounced, position < upto,
         NEW x \in {0, 1}, NEW decision \in Symptom!Decisions, NEW stopped \in BOOLEAN,
         feed' = feed, spawning' = spawning,
         sessions' \in [1..MaxMade -> Nat],
         sessions'[feed[position + 1].id] = sessions[feed[position + 1].id] + x,
         \A n \in (1..MaxMade) \ {feed[position + 1].id} : sessions'[n] = sessions[n],
         x = 1 => Severely(feed[position + 1]),
         IF stopped
         THEN /\ stops' = stops + 1 /\ decided' = decided /\ dead' = dead
              /\ committed' = committed /\ from' = committed /\ upto' = committed
              /\ position' = committed
         ELSE /\ stops' = stops /\ position' = position + 1
              /\ committed' = committed /\ from' = from /\ upto' = upto
              /\ decided' = [decided EXCEPT ![feed[position + 1].id] = @ \cup {decision}]
              /\ dead' \in {dead, dead \cup {feed[position + 1].id}}
              /\ dead' # dead => ~Symptom!Valid(feed[position + 1])
              /\ ~Symptom!Valid(feed[position + 1]) => decision = "rejected"
              /\ decision = "spawn_session" => x = 1
  PROVE  EventsTriaged'
<1> DEFINE e == feed[position + 1]
<1>0. PICK k \in Nat : k = position + 1
  BY DEF EventsTriaged
<1> USE <1>0
<1>1. /\ Sequenced(feed) /\ Len(feed) \in Nat /\ DOMAIN feed = 1..Len(feed) /\ k \in 1..Len(feed)
      /\ position \in Nat /\ stops \in Nat
  BY FeedIds DEF EventsTriaged
<1>2. \A i \in 1..Len(feed) : feed[i].id \in 1..MaxMade /\ (i # k => feed[i].id # e.id)
  BY <1>1, FeedIds, Zenon
<1>4. /\ decided' \in [1..MaxMade -> SUBSET Symptom!Decisions]
      /\ decided'[e.id] = IF stopped THEN decided[e.id] ELSE decided[e.id] \cup {decision}
      /\ \A n \in (1..MaxMade) \ {e.id} : decided'[n] = decided[n]
      /\ \A n \in (1..MaxMade) \ {e.id} : n \in dead' <=> n \in dead
  <2>1. CASE stopped
    BY <2>1 DEF EventsTriaged
  <2>2. CASE ~stopped
    <3>1. e.id \in 1..MaxMade /\ decided \in [1..MaxMade -> SUBSET Symptom!Decisions]
      BY <1>1, <1>2 DEF EventsTriaged
    <3>2. decided' = [decided EXCEPT ![e.id] = decided[e.id] \cup {decision}]
      BY <2>2, <3>1
    <3>3. decided[e.id] \cup {decision} \in SUBSET Symptom!Decisions
      BY <3>1, Zenon
    <3>4. \A n \in (1..MaxMade) \ {e.id} : n \in dead' <=> n \in dead
      BY <2>2
    <3> HIDE DEF e
    <3> QED BY <2>2, <3>1, <3>2, <3>3, <3>4
  <2> QED BY <2>1, <2>2
<1>3. ASSUME NEW i \in 1..Len(feed), i # k
      PROVE  /\ sessions'[feed[i].id] = sessions[feed[i].id]
             /\ decided'[feed[i].id] = decided[feed[i].id]
             /\ feed[i].id \in dead' <=> feed[i].id \in dead
  BY <1>2, <1>3, <1>4, Zenon
<1>5. ASSUME NEW i \in 1..Len(feed), i # k PROVE TriageOf(i)'
  <2>1. TriageOf(i) /\ feed'[i] = feed[i]
    BY DEF EventsTriaged
  <2>2. i <= position' => i <= position
    BY <1>1, <1>5 DEF EventsTriaged
  <2>3. sessions'[feed[i].id] <= stops' + (IF i <= position' THEN 1 ELSE 0)
    <3>1. sessions[feed[i].id] <= stops + (IF i <= position THEN 1 ELSE 0)
      BY <2>1 DEF TriageOf
    <3>2. sessions[feed[i].id] \in Nat
      BY <1>2 DEF EventsTriaged
    <3> QED BY <1>1, <1>3, <1>5, <3>1, <3>2 DEF EventsTriaged
  <2> QED BY <1>3, <1>5, <2>1, <2>2, <2>3, Zenon DEF TriageOf, Severely
<1>6. TriageOf(k)'
  <2>1. TriageOf(k) /\ feed'[k] = e /\ ~(k <= position) /\ sessions[e.id] \in Nat
    BY <1>1, <1>2 DEF EventsTriaged
  <2>2. sessions[e.id] <= stops /\ sessions'[e.id] = sessions[e.id] + x
    BY <1>1, <2>1 DEF TriageOf
  <2>3. sessions'[e.id] <= stops' + (IF k <= position' THEN 1 ELSE 0)
    BY <1>1, <2>1, <2>2 DEF EventsTriaged
  <2>4. sessions'[e.id] > 0 => Severely(e)
    BY <2>1, <2>2 DEF TriageOf
  <2>5. sessions[e.id] > 0 => sessions'[e.id] > 0
    BY <2>1, <2>2
  <2>6. CASE stopped
    <3>1. ~(k <= position') /\ decided' = decided /\ dead' = dead
      BY <2>6, <1>1 DEF EventsTriaged
    <3>2. e.id \in dead => ~Symptom!Valid(e) /\ decided[e.id] # {}
      BY <2>1 DEF TriageOf
    <3>3. ~Symptom!Valid(e) => decided[e.id] \subseteq {"rejected"}
      BY <2>1 DEF TriageOf
    <3>4. "spawn_session" \in decided[e.id] => sessions'[e.id] > 0
      BY <2>1, <2>5 DEF TriageOf
    <3> QED BY <2>1, <2>3, <2>4, <3>1, <3>2, <3>3, <3>4 DEF TriageOf, Severely
  <2>7. CASE ~stopped
    <3>1. decided'[e.id] = decided[e.id] \cup {decision}
      BY <1>4, <2>7
    <3>2. x = 1 => sessions'[e.id] > 0
      BY <2>1, <2>2
    <3>3. e.id \in dead' => ~Symptom!Valid(e)
      BY <2>1, <2>7 DEF TriageOf
    <3>4. ~Symptom!Valid(e) => decided'[e.id] \subseteq {"rejected"}
      BY <2>1, <2>7, <3>1 DEF TriageOf
    <3>5. "spawn_session" \in decided'[e.id] => sessions'[e.id] > 0
      BY <2>1, <2>5, <2>7, <3>1, <3>2, Zenon DEF TriageOf
    <3>6. decided'[e.id] # {}
      BY <3>1
    <3> QED BY <2>1, <2>3, <2>4, <3>6, <3>3, <3>4, <3>5 DEF TriageOf, Severely
  <2> QED BY <2>6, <2>7
<1>7. ASSUME NEW n \in (1..MaxMade) \ IdsOf(feed)
      PROVE  decided'[n] = {} /\ sessions'[n] = 0 /\ n \notin dead'
  <2>1. n # e.id
    BY <1>1 DEF IdsOf
  <2>2. decided[n] = {} /\ sessions[n] = 0 /\ n \notin dead
    BY DEF EventsTriaged
  <2> QED BY <1>4, <2>1, <2>2, Zenon
<1>8. \A i \in 1..Len(feed') : TriageOf(i)'
  BY <1>5, <1>6, Zenon
<1>9. /\ committed' \in Nat /\ from' \in Nat /\ position' \in Nat /\ upto' \in Nat /\ stops' \in Nat
      /\ committed' <= from' /\ from' <= position' /\ position' <= upto' /\ upto' <= Len(feed')
  BY <1>1 DEF EventsTriaged
<1>10. \A n \in (1..MaxMade) \ IdsOf(feed') : decided'[n] = {} /\ sessions'[n] = 0 /\ n \notin dead'
  <2>1. IdsOf(feed') = IdsOf(feed)
    OBVIOUS
  <2> QED BY <1>7, <2>1, Zenon
<1> QED BY <1>4, <1>8, <1>9, <1>10, Zenon DEF EventsTriaged

-----------------------------------------------------------------------------
(* Steps                                                                   *)

(* The next event is numbered after those made.                            *)
LEMMA EventFields ==
  \A emitter, signal, severity, dims :
    /\ Symptom!Event(emitter, signal, severity, dims).id = Len(made) + 1
    /\ Symptom!Event(emitter, signal, severity, dims).emitter = emitter
BY DEF Symptom!Event

Emission ==
  \E e : /\ e.id = Len(made) + 1 /\ e.emitter # "logs"
         /\ Symptom!Made(e) /\ Symptom!Publish(e)

(* An event of another emitter is an emission.                             *)
LEMMA OtherEmits ==
  ASSUME NEW emitter \in {"probe", "metrics", "ci", "webhook"}, NEW signal, NEW severity, NEW dims,
         Symptom!Emit(Symptom!Event(emitter, signal, severity, dims))
  PROVE  Emission
<1> DEFINE e == Symptom!Event(emitter, signal, severity, dims)
<1>1. e.id = Len(made) + 1 /\ e.emitter = emitter
  BY EventFields, ZenonT(60)
<1>2. Symptom!Made(e) /\ Symptom!Publish(e)
  BY Zenon DEF Symptom!Emit
<1>3. emitter # "logs"
  OBVIOUS
<1> HIDE DEF e
<1> QED BY <1>1, <1>2, <1>3, Zenon DEF Emission

(* What the probes, the rules and the webhooks do to the topic.            *)
LEMMA Emissions ==
  ASSUME \/ \E p \in Probes : Symptom!Check(p)
         \/ \E r \in Thresholds : Symptom!Query(r)
         \/ Symptom!CI \/ Symptom!Linear \/ Symptom!PagerDuty \/ Symptom!Slack
  PROVE  /\ buffered' = buffered /\ UNCHANGED Symptom!triager /\ stops' = stops
         /\ UNCHANGED Symptom!log \/ Emission
<1> DEFINE Goal == /\ buffered' = buffered /\ UNCHANGED Symptom!triager /\ stops' = stops
                   /\ UNCHANGED Symptom!log \/ Emission
<1>1. ASSUME NEW p \in Probes, Symptom!Check(p) PROVE Goal
  <2>1. PICK ok \in BOOLEAN, turn \in BOOLEAN :
          IF turn THEN Symptom!Emit(Symptom!Event("probe",
                           IF ok THEN "probe-recovered" ELSE "probe-failed",
                           ProbeSeverity, <<"service", "signal">>))
                  ELSE UNCHANGED Symptom!log
    <3>1. PICK ok \in BOOLEAN :
            IF IF ok THEN ~healthy[p] ELSE healthy[p] /\ Symptom!Streak(p, ok) >= Debounce
            THEN Symptom!Emit(Symptom!Event("probe",
                           IF ok THEN "probe-recovered" ELSE "probe-failed",
                           ProbeSeverity, <<"service", "signal">>))
            ELSE UNCHANGED Symptom!log
      BY <1>1, Zenon DEF Symptom!Check
    <3> QED BY <3>1, Zenon
  <2>2. UNCHANGED Symptom!log \/ Emission
    BY <2>1, OtherEmits, Zenon
  <2>3. buffered' = buffered /\ UNCHANGED Symptom!triager /\ stops' = stops
    BY <1>1, Zenon DEF Symptom!Check
  <2> QED BY <2>2, <2>3, Zenon
<1>2. ASSUME NEW r \in Thresholds, Symptom!Query(r) PROVE Goal
  <2>1. \/ UNCHANGED Symptom!log
        \/ \E signal : Symptom!Emit(Symptom!Event("metrics", signal, RuleSeverity,
                                                  <<"service", "signal">>))
    BY <1>2, Zenon DEF Symptom!Query
  <2>2. UNCHANGED Symptom!log \/ Emission
    BY <2>1, OtherEmits, Zenon
  <2>3. buffered' = buffered /\ UNCHANGED Symptom!triager /\ stops' = stops
    BY <1>2, Zenon DEF Symptom!Query
  <2> QED BY <2>2, <2>3, Zenon
<1>3. ASSUME Symptom!CI PROVE Goal
  <2>1. \E signal, dims : Symptom!Emit(Symptom!Event("ci", signal, "warning", dims))
    BY <1>3, Zenon DEF Symptom!CI
  <2>2. Emission
    BY <2>1, OtherEmits, Zenon
  <2> QED BY <1>3, <2>2, Zenon DEF Symptom!CI, Symptom!emitters
<1>4. ASSUME Symptom!Linear \/ Symptom!PagerDuty \/ Symptom!Slack PROVE Goal
  <2>1. \E signal, severity, dims : Symptom!Emit(Symptom!Event("webhook", signal, severity, dims))
    BY <1>4, Zenon DEF Symptom!Linear, Symptom!PagerDuty, Symptom!Slack
  <2>2. Emission
    BY <2>1, OtherEmits, Zenon
  <2> QED BY <1>4, <2>2, Zenon
      DEF Symptom!Linear, Symptom!PagerDuty, Symptom!Slack, Symptom!emitters
<1> QED BY <1>1, <1>2, <1>3, <1>4, Zenon

(* The log rule matches.                                                   *)
LEMMA TickStep ==
  ASSUME ProbesDebounced, EventsPlaced, LogsInOrder, Symptom!Tick
  PROVE  /\ EventsPlaced' /\ LogsInOrder'
         /\ feed' = feed /\ UNCHANGED Symptom!triager /\ stops' = stops
<1> DEFINE dims == Symptom!Build({"service", "signal"} \cup
                                   (IF LogClass = "" THEN {} ELSE {"error_class"}))
           e == Symptom!Event("logs", "log-pattern", "high", dims)
<1>1. /\ Symptom!Made(e) /\ Symptom!Offer(e)
      /\ feed' = feed /\ UNCHANGED Symptom!triager /\ stops' = stops
  BY Zenon DEF Symptom!Tick
<1>2. e.id = Len(made) + 1 /\ e.emitter = "logs"
  BY EventFields, ZenonT(60)
<1> HIDE DEF e
<1> QED BY <1>1, <1>2, LogsOffer, Zenon

(* What the triager does with the event behind its position.               *)
LEMMA TriagerStep ==
  ASSUME ProbesDebounced, SymptomsInv,
         Symptom!Reject \/ Symptom!Note \/ Symptom!Spawn \/ Symptom!Stop
  PROVE  EventsTriaged'
<1> DEFINE e == feed[position + 1]
<1>1. EventsPlaced /\ EventsTriaged
  BY DEF SymptomsInv
<1>2. /\ position \in Nat /\ stops \in Nat /\ upto <= Len(feed) /\ upto \in Nat
      /\ sessions \in [1..MaxMade -> Nat]
  BY <1>1 DEF EventsTriaged
<1>3. position < upto => e.id \in 1..MaxMade
  <2>1. position < upto => position + 1 \in 1..Len(feed)
    BY <1>1, <1>2, FeedIds
  <2> QED BY <1>1, <2>1, FeedIds, Zenon
<1>4. feed' = feed /\ spawning' = spawning
  BY Zenon DEF Symptom!Reject, Symptom!Note, Symptom!Spawn, Symptom!Stop,
               Symptom!Decide, Symptom!log
<1>5. "rejected" \in Symptom!Decisions /\ "log_only" \in Symptom!Decisions
      /\ "spawn_session" \in Symptom!Decisions
  BY DEF Symptom!Decisions
<1> DEFINE Decided(x, decision) ==
      /\ stops' = stops /\ position' = position + 1
      /\ committed' = committed /\ from' = from /\ upto' = upto
      /\ decided' = [decided EXCEPT ![e.id] = @ \cup {decision}]
      /\ dead' \in {dead, dead \cup {e.id}}
      /\ dead' # dead => ~Symptom!Valid(e)
      /\ ~Symptom!Valid(e) => decision = "rejected"
      /\ decision = "spawn_session" => x = 1
<1>6. ASSUME position < upto, NEW x \in {0, 1}, NEW decision \in Symptom!Decisions,
             sessions' \in [1..MaxMade -> Nat], sessions'[e.id] = sessions[e.id] + x,
             \A n \in (1..MaxMade) \ {e.id} : sessions'[n] = sessions[n],
             x = 1 => Severely(e), Decided(x, decision)
      PROVE  EventsTriaged'
  BY <1>1, <1>4, <1>6, EventHandled
<1>7. ASSUME position < upto, sessions' = sessions
      PROVE  /\ sessions' \in [1..MaxMade -> Nat] /\ sessions'[e.id] = sessions[e.id] + 0
             /\ \A n \in (1..MaxMade) \ {e.id} : sessions'[n] = sessions[n]
  BY <1>2, <1>3, <1>7
<1>8. ASSUME position < upto, NEW x \in {0, 1}, sessions' = [sessions EXCEPT ![e.id] = @ + x]
      PROVE  /\ sessions' \in [1..MaxMade -> Nat] /\ sessions'[e.id] = sessions[e.id] + x
             /\ \A n \in (1..MaxMade) \ {e.id} : sessions'[n] = sessions[n]
  BY <1>2, <1>3, <1>8
<1>9. 0 \in {0, 1} /\ 1 \in {0, 1} /\ 0 # 1 /\ "log_only" # "spawn_session" /\ "rejected" # "spawn_session"
  OBVIOUS
<1>10. CASE Symptom!Reject
  <2>1. position < upto /\ sessions' = sessions /\ ~Symptom!Valid(e) /\ Decided(0, "rejected")
    BY <1>9, <1>10, Zenon DEF Symptom!Reject, Symptom!Decide
  <2> HIDE DEF e, Decided
  <2> QED BY <1>5, <1>6, <1>7, <1>9, <2>1, Zenon
<1>11. CASE Symptom!Note
  <2>1. position < upto /\ sessions' = sessions /\ Decided(0, "log_only")
    BY <1>9, <1>11, Zenon DEF Symptom!Note, Symptom!Decide
  <2> HIDE DEF e, Decided
  <2> QED BY <1>5, <1>6, <1>7, <1>9, <2>1, Zenon
<1>12. CASE Symptom!Spawn
  <2>1. PICK session \in BOOLEAN, answered \in BOOLEAN :
          /\ answered => session
          /\ sessions' = [sessions EXCEPT ![e.id] = @ + (IF session THEN 1 ELSE 0)]
          /\ Symptom!Decide(IF answered THEN "spawn_session" ELSE "log_only")
    BY <1>12, Zenon DEF Symptom!Spawn
  <2>2. position < upto /\ Severely(e) /\ Symptom!Valid(e) /\ dead' = dead
    BY <1>12, Zenon DEF Symptom!Spawn, Severely
  <2>3. PICK x \in {0, 1} : x = IF session THEN 1 ELSE 0
    OBVIOUS
  <2>4. PICK decision \in Symptom!Decisions : decision = IF answered THEN "spawn_session" ELSE "log_only"
    BY <1>5, Zenon
  <2>5. decision = "spawn_session" => x = 1
    BY <2>1, <2>3, <2>4, <1>9, Zenon
  <2>6. Decided(x, decision)
    BY <2>1, <2>2, <2>4, <2>5, Zenon DEF Symptom!Decide
  <2>7. sessions' = [sessions EXCEPT ![e.id] = @ + x]
    BY <2>1, <2>3, Zenon
  <2> HIDE DEF e, Decided
  <2> QED BY <1>6, <1>8, <2>2, <2>6, <2>7, Zenon
<1>13. CASE Symptom!Stop
  <2>1. /\ stops' = stops + 1 /\ decided' = decided /\ dead' = dead /\ committed' = committed
        /\ from' = committed /\ upto' = committed /\ position' = committed
    BY <1>13, Zenon DEF Symptom!Stop
  <2>2. CASE position < upto /\ Severely(e) /\ sessions' = [sessions EXCEPT ![e.id] = @ + 1]
    BY <1>1, <1>4, <1>5, <1>8, <1>9, <2>1, <2>2, EventHandled
  <2>3. CASE sessions' = sessions
    <3>1. \A i \in 1..Len(feed) : TriageOf(i)'
      <4> SUFFICES ASSUME NEW i \in 1..Len(feed) PROVE TriageOf(i)'
        OBVIOUS
      <4>1. TriageOf(i) /\ feed'[i] = feed[i]
        BY <1>1, <1>4 DEF EventsTriaged
      <4>2. i <= position' => i <= position
        BY <1>1, <1>2, <2>1, FeedIds DEF EventsTriaged
      <4>3. sessions[feed[i].id] <= stops' + (IF i <= position' THEN 1 ELSE 0)
        <5>1. sessions[feed[i].id] \in Nat
          BY <1>1, <1>2, FeedIds
        <5>2. sessions[feed[i].id] <= stops + (IF i <= position THEN 1 ELSE 0)
          BY <4>1 DEF TriageOf
        <5> QED BY <1>2, <2>1, <5>1, <5>2
      <4> QED BY <1>4, <2>1, <2>3, <4>1, <4>2, <4>3, Zenon DEF TriageOf, Severely
    <3> QED BY <1>1, <1>2, <1>4, <2>1, <2>3, <3>1 DEF EventsTriaged
  <2> QED BY <1>13, <2>2, <2>3, Zenon DEF Symptom!Stop, Severely
<1> QED BY <1>10, <1>11, <1>12, <1>13

(* The steps of the service keep its invariant.                            *)
LEMMA SymptomsStep ==
  ASSUME ProbesDebounced, SymptomsInv, Symptom!Next
  PROVE  SymptomsInv'
<1>1. StreaksCounted /\ EventsPlaced /\ LogsInOrder /\ EventsTriaged
  BY DEF SymptomsInv
<1>2. CASE \/ \E p \in Probes : Symptom!Check(p)
           \/ \E r \in Thresholds : Symptom!Query(r)
           \/ Symptom!CI \/ Symptom!Linear \/ Symptom!PagerDuty \/ Symptom!Slack
  <2>1. /\ buffered' = buffered /\ UNCHANGED Symptom!triager /\ stops' = stops
        /\ UNCHANGED Symptom!log \/ Emission
    BY <1>2, Emissions
  <2>2. StreaksCounted'
    <3>1. CASE \E p \in Probes : Symptom!Check(p)
      BY <1>1, <3>1, CheckStep
    <3>2. CASE ~\E p \in Probes : Symptom!Check(p)
      <4>1. UNCHANGED <<checks, healthy, streak>>
        BY <1>2, <3>2, Zenon DEF Symptom!Query, Symptom!CI, Symptom!Linear, Symptom!PagerDuty,
                                 Symptom!Slack, Symptom!emitters
      <4> QED BY <1>1, <4>1 DEF StreaksCounted
    <3> QED BY <3>1, <3>2
  <2>3. CASE UNCHANGED Symptom!log
    <3>1. made' = made /\ missing' = missing /\ feed' = feed
      BY <2>3, Zenon DEF Symptom!log
    <3>2. EventsPlaced' /\ LogsInOrder'
      BY <1>1, <2>1, <3>1 DEF EventsPlaced, LogsInOrder
    <3>3. EventsTriaged'
      BY <1>1, <2>1, <3>1, FeedStays DEF EventsTriaged
    <3> QED BY <2>2, <3>2, <3>3 DEF SymptomsInv
  <2>4. CASE Emission
    <3>1. PICK e : /\ e.id = Len(made) + 1 /\ e.emitter # "logs"
                   /\ Symptom!Made(e) /\ Symptom!Publish(e)
      BY <2>4 DEF Emission
    <3>2. EventsPlaced' /\ LogsInOrder'
      BY <1>1, <2>1, <3>1, OthersPublish, Zenon
    <3>3. e.id \in (1..MaxMade) \ IdsOf(feed)
      BY <1>1, <3>1, EventMade, Zenon
    <3>4. CASE feed' = Append(feed, e)
      BY <1>1, <2>1, <2>2, <3>2, <3>3, <3>4, FeedGrows, Zenon DEF SymptomsInv
    <3>5. CASE feed' = feed
      <4>1. EventsTriaged'
        BY <1>1, <2>1, <3>5, FeedStays DEF EventsTriaged
      <4> QED BY <2>2, <3>2, <4>1 DEF SymptomsInv
    <3> QED BY <3>1, <3>4, <3>5, Zenon DEF Symptom!Publish
  <2> QED BY <2>1, <2>3, <2>4
<1>3. CASE Symptom!Tick
  <2>1. UNCHANGED <<checks, healthy, streak>>
    BY <1>3, Zenon DEF Symptom!Tick
  <2>2. EventsPlaced' /\ LogsInOrder' /\ feed' = feed /\ UNCHANGED Symptom!triager /\ stops' = stops
    BY <1>1, <1>3, TickStep, Zenon
  <2>3. EventsTriaged'
    BY <1>1, <2>2, FeedStays DEF EventsTriaged
  <2> QED BY <1>1, <2>1, <2>2, <2>3 DEF SymptomsInv, StreaksCounted
<1>4. CASE Symptom!Drain
  <2> DEFINE e == Head(buffered)
  <2>1. /\ UNCHANGED <<checks, healthy, streak>> /\ UNCHANGED Symptom!triager /\ stops' = stops
        /\ feed' = Append(feed, e) \/ feed' = feed
    BY <1>4, Zenon DEF Symptom!Drain, Symptom!Publish
  <2>2. EventsPlaced' /\ LogsInOrder' /\ e.id \in IdsOf(buffered)
    BY <1>1, <1>4, LogsDrain, Zenon
  <2>3. EventsTriaged'
    <3>1. e.id \in 1..MaxMade /\ e.id \notin IdsOf(feed)
      <4>1. IdsOf(buffered) \subseteq 1..Len(made) /\ Len(made) \in 0..MaxMade
        BY <1>1, Zenon DEF EventsPlaced
      <4>2. 1..Len(made) \subseteq 1..MaxMade
        BY <4>1 DEF ProbesDebounced
      <4> QED BY <1>1, <2>2, <4>1, <4>2, Zenon DEF EventsPlaced
    <3> HIDE DEF e
    <3>2. CASE feed' = Append(feed, e)
      BY <1>1, <2>1, <3>1, <3>2, FeedGrows, Zenon
    <3>3. CASE feed' = feed
      BY <1>1, <2>1, <3>3, FeedStays DEF EventsTriaged
    <3> QED BY <2>1, <3>2, <3>3
  <2> QED BY <1>1, <2>1, <2>2, <2>3 DEF SymptomsInv, StreaksCounted
<1>5. ASSUME NEW emitter \in {"probe", "metrics", "logs"}, Symptom!Restart(emitter)
      PROVE  SymptomsInv'
  <2>1. made' = made /\ feed' = feed /\ UNCHANGED Symptom!triager /\ stops' = stops + 1
    BY <1>5, Zenon DEF Symptom!Restart
  <2>2. EventsTriaged'
    BY <1>1, <2>1, FeedStays DEF EventsTriaged
  <2>3. CASE emitter = "probe"
    <3>1. /\ healthy' = [p \in Probes |-> TRUE] /\ streak' = [p \in Probes |-> 0]
          /\ checks' = [p \in Probes |-> <<>>] /\ buffered' = buffered /\ missing' = missing
      BY <1>5, <2>3 DEF Symptom!Restart
    <3>2. StreaksCounted'
      BY <3>1 DEF StreaksCounted, ProbesDebounced
    <3>3. EventsPlaced' /\ LogsInOrder'
      BY <1>1, <2>1, <3>1 DEF EventsPlaced, LogsInOrder
    <3> QED BY <2>2, <3>2, <3>3 DEF SymptomsInv
  <2>4. CASE emitter = "metrics"
    <3>1. UNCHANGED <<checks, healthy, streak, buffered, missing>>
      BY <1>5, <2>4 DEF Symptom!Restart
    <3> QED BY <1>1, <2>1, <2>2, <3>1
        DEF SymptomsInv, StreaksCounted, EventsPlaced, LogsInOrder
  <2>5. CASE emitter = "logs"
    <3>1. /\ UNCHANGED <<checks, healthy, streak>> /\ buffered' = <<>>
          /\ missing' = missing \cup IdsOf(buffered)
      BY <1>5, <2>5 DEF Symptom!Restart, IdsOf
    <3>2. EventsPlaced' /\ LogsInOrder'
      BY <1>1, <2>1, <3>1, LogsKilled
    <3>3. StreaksCounted'
      BY <1>1, <3>1 DEF StreaksCounted
    <3> QED BY <2>2, <3>2, <3>3 DEF SymptomsInv
  <2> QED BY <1>5, <2>3, <2>4, <2>5
<1>6. CASE Symptom!Fetch \/ Symptom!Commit
  <2>1. /\ feed' = feed /\ made' = made /\ missing' = missing /\ buffered' = buffered
        /\ UNCHANGED <<checks, healthy, streak, position, spawning, dead, decided, sessions, stops>>
        /\ \/ /\ position = upto /\ from' = upto /\ committed' = committed
              /\ upto' \in (upto + 1)..Len(feed)
           \/ /\ committed' = from /\ from' = from /\ upto' = upto
    BY <1>6, Zenon DEF Symptom!Fetch, Symptom!Commit, Symptom!log, Symptom!emitters
  <2>2. /\ committed' \in Nat /\ from' \in Nat /\ upto' \in Nat /\ committed' <= from'
        /\ from' <= position /\ position <= upto' /\ upto' <= Len(feed)
    BY <1>1, <2>1, FeedIds DEF EventsTriaged
  <2>3. EventsTriaged'
    BY <1>1, <2>1, <2>2 DEF EventsTriaged, TriageOf, Severely
  <2> QED BY <1>1, <2>1, <2>3 DEF SymptomsInv, StreaksCounted, EventsPlaced, LogsInOrder
<1>7. CASE Symptom!Reject \/ Symptom!Note \/ Symptom!Spawn \/ Symptom!Stop
  <2>1. /\ feed' = feed /\ made' = made /\ missing' = missing /\ buffered' = buffered
        /\ UNCHANGED <<checks, healthy, streak>>
    BY <1>7, Zenon DEF Symptom!Reject, Symptom!Note, Symptom!Spawn, Symptom!Stop, Symptom!Decide,
                       Symptom!log, Symptom!emitters
  <2>2. EventsTriaged'
    BY <1>7, TriagerStep, Zenon
  <2> QED BY <1>1, <2>1, <2>2 DEF SymptomsInv, StreaksCounted, EventsPlaced, LogsInOrder
<1> QED BY <1>2, <1>3, <1>4, <1>5, <1>6, <1>7, Zenon DEF Symptom!Next

(* Every event of the topic and of the buffer has its own number.          *)
LEMMA EventsCounted ==
  ASSUME EventsPlaced, LogsInOrder
  PROVE  Symptom!EventsAccounted
<1> DEFINE h == feed \o buffered
           F == {feed[i] : i \in DOMAIN feed}
           B == {buffered[i] : i \in DOMAIN buffered}
           S == F \cup B
           m == Len(feed)
           n == Len(buffered)
           ids == {h[i].id : i \in DOMAIN h}
<1>1. feed \in Seq(F) /\ buffered \in Seq(B)
  BY DEF EventsPlaced, Sequenced
<1> HIDE DEF F, B
<1>2. feed \in Seq(S) /\ buffered \in Seq(S)
  BY <1>1
<1> HIDE DEF S
<1>3. /\ m \in Nat /\ n \in Nat /\ Len(h) = m + n /\ DOMAIN h = 1..(m + n)
      /\ DOMAIN feed = 1..m /\ DOMAIN buffered = 1..n
      /\ \A i \in 1..m : h[i] = feed[i]
      /\ \A i \in (m + 1)..(m + n) : h[i] = buffered[i - m]
  BY <1>2
<1> HIDE DEF h, m, n
<1>4. \A j \in 1..n : h[m + j] = buffered[j] /\ m + j \in 1..(m + n)
  <2> SUFFICES ASSUME NEW j \in 1..n PROVE h[m + j] = buffered[j] /\ m + j \in 1..(m + n)
    OBVIOUS
  <2>1. m + j \in (m + 1)..(m + n) /\ m + j - m = j /\ m + j \in 1..(m + n)
    BY <1>3
  <2>2. h[m + j] = buffered[m + j - m]
    BY <1>3, <2>1
  <2> QED BY <2>1, <2>2
<1>5. ASSUME NEW i \in DOMAIN h
      PROVE  \/ i \in DOMAIN feed /\ h[i] = feed[i]
             \/ \E j \in DOMAIN buffered : i = m + j /\ h[i] = buffered[j]
  <2>1. CASE i <= m
    BY <1>3, <2>1
  <2>2. CASE ~(i <= m)
    <3>1. i - m \in DOMAIN buffered /\ i = m + (i - m)
      BY <1>3, <2>2
    <3>2. h[i] = buffered[i - m]
      BY <1>3, <2>2
    <3> QED BY <3>1, <3>2
  <2> QED BY <2>1, <2>2
<1>6. ids = IdsOf(feed) \cup IdsOf(buffered)
  <2>1. \A x \in ids : x \in IdsOf(feed) \cup IdsOf(buffered)
    BY <1>5, Zenon DEF IdsOf
  <2>2. \A x \in IdsOf(feed) : x \in ids
    <3> SUFFICES ASSUME NEW i \in DOMAIN feed PROVE feed[i].id \in ids
      BY DEF IdsOf
    <3>1. i \in DOMAIN h /\ h[i] = feed[i]
      BY <1>3
    <3> QED BY <3>1
  <2>3. \A x \in IdsOf(buffered) : x \in ids
    <3> SUFFICES ASSUME NEW j \in DOMAIN buffered PROVE buffered[j].id \in ids
      BY DEF IdsOf
    <3>1. m + j \in DOMAIN h /\ h[m + j] = buffered[j]
      BY <1>3, <1>4
    <3> QED BY <3>1
  <2> QED BY <2>1, <2>2, <2>3, Zenon
<1>7. Apart(h)
  <2> SUFFICES ASSUME NEW i \in DOMAIN h, NEW j \in DOMAIN h, h[i].id = h[j].id PROVE i = j
    BY DEF Apart
  <2>1. CASE i \in DOMAIN feed /\ h[i] = feed[i] /\ j \in DOMAIN feed /\ h[j] = feed[j]
    BY <2>1 DEF EventsPlaced, Apart
  <2>2. ASSUME NEW k \in DOMAIN buffered, i = m + k, h[i] = buffered[k],
               NEW l \in DOMAIN buffered, j = m + l, h[j] = buffered[l]
        PROVE  i = j
    <3>1. k = l
      BY <2>2 DEF EventsPlaced, Apart
    <3> QED BY <2>2, <3>1
  <2>3. \A k \in DOMAIN feed, l \in DOMAIN buffered : feed[k].id # buffered[l].id
    BY DEF EventsPlaced, IdsOf
  <2>4. h[i] = feed[i] /\ i \in DOMAIN feed => ~\E l \in DOMAIN buffered : h[j] = buffered[l]
    BY <2>3, Zenon
  <2>5. h[j] = feed[j] /\ j \in DOMAIN feed => ~\E l \in DOMAIN buffered : h[i] = buffered[l]
    BY <2>3, Zenon
  <2> QED BY <1>5, <2>1, <2>2, <2>4, <2>5, Zenon
<1>8. Cardinality(ids) = Len(h) /\ IsFiniteSet(ids)
  <2> DEFINE f == [i \in 1..(m + n) |-> h[i].id]
  <2>1. f \in Bijection(1..(m + n), ids)
    <3>1. f \in [1..(m + n) -> ids]
      BY <1>3
    <3>2. \A a, b \in 1..(m + n) : f[a] = f[b] => a = b
      BY <1>3, <1>7 DEF Apart
    <3>3. \A x \in ids : \E a \in 1..(m + n) : f[a] = x
      BY <1>3
    <3> HIDE DEF f, ids
    <3> QED BY <3>1, <3>2, <3>3 DEF Bijection, Injection, Surjection, IsInjective
  <2>2. IsFiniteSet(1..(m + n)) /\ Cardinality(1..(m + n)) = m + n
    <3> DEFINE k == m + n
    <3>1. 1 \in Int /\ k \in Nat
      BY <1>3
    <3> HIDE DEF k
    <3>2. IsFiniteSet(1..k) /\ Cardinality(1..k) = IF 1 > k THEN 0 ELSE k - 1 + 1
      BY <3>1, FS_Interval
    <3> QED BY <3>1, <3>2 DEF k
  <2> HIDE DEF ids
  <2> QED BY <1>3, <2>1, <2>2, FS_Bijection DEF ExistsBijection
<1>9. ids \cup missing = DOMAIN made /\ ids \cap missing = {}
  <2>1. DOMAIN made = 1..Len(made)
    BY ListedGrows DEF EventsPlaced
  <2> HIDE DEF ids
  <2> QED BY <1>6, <2>1 DEF EventsPlaced
<1>10. ASSUME NEW i \in DOMAIN h, NEW j \in DOMAIN h, i < j,
              h[i].emitter = "logs", h[j].emitter = "logs"
       PROVE  h[i].id < h[j].id
  <2>1. CASE i \in DOMAIN feed /\ h[i] = feed[i]
    BY <1>5, <1>10, <2>1, Zenon DEF LogsInOrder
  <2>2. ASSUME NEW k \in DOMAIN buffered, i = m + k, h[i] = buffered[k] PROVE h[i].id < h[j].id
    <3>1. j \notin DOMAIN feed
      BY <1>3, <1>10, <2>2
    <3>2. PICK l \in DOMAIN buffered : j = m + l /\ h[j] = buffered[l]
      BY <1>5, <3>1, Zenon
    <3>3. k < l
      BY <1>3, <1>10, <2>2, <3>2
    <3> QED BY <2>2, <3>2, <3>3, Zenon DEF LogsInOrder
  <2> QED BY <1>5, <2>1, <2>2, Zenon
<1>11. \A i, j \in DOMAIN h :
         i < j /\ h[i].emitter = "logs" /\ h[j].emitter = "logs" => h[i].id < h[j].id
  BY <1>10, Zenon
<1>12. /\ ids \cup missing = DOMAIN made /\ ids \cap missing = {}
       /\ Symptom!Cardinality(ids) = Len(h)
       /\ \A i, j \in DOMAIN h :
            i < j /\ h[i].emitter = "logs" /\ h[j].emitter = "logs" => h[i].id < h[j].id
  <2>1. Symptom!Cardinality(ids) = Cardinality(ids)
    BY Zenon DEF Symptom!Cardinality, Cardinality
  <2> QED BY <1>8, <1>9, <1>11, <2>1, Zenon
<1> QED BY <1>12, Zenon DEF Symptom!EventsAccounted, h

(* The service keeps its promises.                                         *)
LEMMA SymptomsAlways ==
  ASSUME ProbesDebounced
  PROVE  /\ Symptom!Init => SymptomsInv
         /\ SymptomsInv /\ [Symptom!Next]_(Symptom!symptoms) => SymptomsInv'
         /\ SymptomsInv => Symptom!SymptomsSound
<1>1. ASSUME Symptom!Init PROVE SymptomsInv
  <2>1. StreaksCounted
    BY <1>1 DEF Symptom!Init, StreaksCounted, ProbesDebounced
  <2>2. feed = <<>> /\ buffered = <<>> /\ made = <<>> /\ missing = {} /\ Len(<<>>) = 0
    BY <1>1, Zenon DEF Symptom!Init
  <2>3. EventsPlaced
    BY <2>2, ListedEmpty DEF EventsPlaced, ProbesDebounced
  <2>4. LogsInOrder
    BY <2>2 DEF LogsInOrder
  <2>5. EventsTriaged
    <3>1. 1..Len(feed) = {}
      BY <2>2
    <3> QED BY <1>1, <2>2, <3>1 DEF Symptom!Init, EventsTriaged
  <2> QED BY <2>1, <2>3, <2>4, <2>5 DEF SymptomsInv
<1>2. ASSUME SymptomsInv, UNCHANGED Symptom!symptoms PROVE SymptomsInv'
  BY <1>2 DEF SymptomsInv, StreaksCounted, EventsPlaced, LogsInOrder, EventsTriaged, TriageOf,
              Severely, Symptom!symptoms, Symptom!emitters, Symptom!log, Symptom!triager
<1>3. ASSUME SymptomsInv PROVE Symptom!SymptomsSound
  <2>1. Symptom!ProbesSettle
    <3> SUFFICES ASSUME NEW p \in Probes
                 PROVE  healthy[p] = ~(Len(checks[p]) = Debounce /\ \A i \in 1..Debounce : ~checks[p][i])
      BY DEF Symptom!ProbesSettle
    <3> DEFINE c == checks[p]
               k == streak[p]
    <3>1. /\ k \in 0..Debounce /\ k <= Len(c) /\ Len(c) <= Debounce /\ Len(c) \in Nat
          /\ \A i \in 1..Len(c) : i > Len(c) - k => ~c[i]
          /\ k < Len(c) => c[Len(c) - k]
          /\ healthy[p] <=> k # Debounce
      BY <1>3 DEF SymptomsInv, StreaksCounted
    <3> HIDE DEF c, k
    <3>2. healthy[p] \in BOOLEAN
      BY <1>3 DEF SymptomsInv, StreaksCounted
    <3>3. ASSUME k = Debounce PROVE Len(c) = Debounce /\ \A i \in 1..Debounce : ~c[i]
      <4>1. Len(c) = Debounce /\ \A i \in 1..Debounce : i > Debounce - Debounce
        BY <3>1, <3>3 DEF ProbesDebounced
      <4> QED BY <3>1, <3>3, <4>1, Zenon
    <3>4. ASSUME k # Debounce, Len(c) = Debounce PROVE \E i \in 1..Debounce : c[i]
      <4>1. k < Len(c) /\ Debounce - k \in 1..Debounce
        BY <3>1, <3>4 DEF ProbesDebounced
      <4> QED BY <3>1, <3>4, <4>1, Zenon
    <3> QED BY <3>1, <3>2, <3>3, <3>4, Zenon DEF c
  <2>2. Symptom!EventsAccounted
    BY <1>3, EventsCounted DEF SymptomsInv
  <2>3. Symptom!TriagedOnce
    <3>1. EventsPlaced /\ EventsTriaged
      BY <1>3 DEF SymptomsInv
    <3>2. /\ \A i \in 1..position : i \in 1..Len(feed)
          /\ DOMAIN feed = 1..Len(feed)
      BY <3>1, FeedIds DEF EventsTriaged
    <3>3. \A i \in 1..position : decided[feed[i].id] # {}
      <4> SUFFICES ASSUME NEW i \in 1..position PROVE decided[feed[i].id] # {}
        OBVIOUS
      <4>1. i <= position /\ i \in 1..Len(feed)
        BY <3>1, <3>2 DEF EventsTriaged
      <4> QED BY <3>1, <4>1 DEF EventsTriaged, TriageOf
    <3>4. ASSUME NEW i \in 1..Len(feed)
          PROVE  /\ sessions[feed[i].id] > 0
                       => spawning /\ Symptom!Valid(feed[i]) /\ Symptom!Severe(feed[i])
                 /\ sessions[feed[i].id] <= 1 + stops
                 /\ feed[i].id \in dead => decided[feed[i].id] = {"rejected"}
                 /\ "spawn_session" \in decided[feed[i].id] => sessions[feed[i].id] > 0
      <4>1. TriageOf(i)
        BY <3>1 DEF EventsTriaged
      <4>2. sessions[feed[i].id] \in Nat /\ stops \in Nat
        BY <3>1, FeedIds DEF EventsTriaged
      <4>3. sessions[feed[i].id] <= 1 + stops
        BY <4>1, <4>2 DEF TriageOf
      <4>4. feed[i].id \in dead => decided[feed[i].id] = {"rejected"}
        BY <4>1 DEF TriageOf
      <4> QED BY <4>1, <4>3, <4>4, Zenon DEF TriageOf, Severely
    <3> QED BY <3>2, <3>3, <3>4, Zenon DEF Symptom!TriagedOnce
  <2> QED BY <2>1, <2>2, <2>3 DEF Symptom!SymptomsSound
<1> QED BY <1>1, <1>2, <1>3, SymptomsStep
-----------------------------------------------------------------------------
(* Alfred: one intent, and the guardrails of its process.                  *)

(* What the proof needs of the constants.                                  *)
TripsNumbered == Hour \in Nat /\ MaxQueue \in Nat

LoopStages == {"retrieve", "ask", "permission", "policy", "approval", "done"}
Unrun(k)   == \A r \in ran : r.at # k
Logged(k)  == \E i \in DOMAIN records : i > 1 /\ records[i].at = k

LoopTypes ==
  /\ reached \in [at : LoopStages]
             \cup [at : {"invoke"}, policy : {"allow", "unreached"}]
             \cup [at : {"record"}, outcome : {"succeeded", "failed"}]
  /\ round \in Nat /\ delegated \in BOOLEAN
  /\ ran \subseteq [at : Nat, delegated : BOOLEAN, policy : {"allow", "unreached"}]
  /\ IsFiniteSet(ran)
  /\ records \in Seq([at : Nat, outcome : Loop!Outcomes])
  /\ reached.at \notin {"retrieve", "done"} => records # <<>>
  /\ reached.at # "done" => answer = "none"

(* A tool is run once in an iteration and recorded when the iteration ends *)
(* well; the log of the specification is told of it then.                  *)
RunsRecorded ==
  /\ \A r \in ran :
        /\ r.at <= round
        /\ r.at < round => Logged(r.at)
        /\ r.at = round => reached.at = "record" \/ (reached.at = "done" /\ answer = "error")
  /\ reached.at = "record" => ~Unrun(round)
  /\ \A r, q \in ran : r.at = q.at => r = q
  /\ \A k \in reported : ~Unrun(k) /\ Logged(k)

(* After a tool that ran without the delegation no permission is given.    *)
OneUndelegated ==
  /\ \A r, q \in ran : ~r.delegated /\ ~q.delegated => r = q
  /\ \A r \in ran : ~r.delegated =>
        ~delegated /\ reached.at \in {"record", "ask", "permission", "done"}

HaltsThere ==
  answer \in {"halted", "denied", "no permission"} =>
    /\ reached.at = "done" /\ Unrun(round)
    /\ records # <<>> /\ records[Len(records)].at = round

(* The window is the end of all trips, and what is before it is old.       *)
TripsKept ==
  /\ wall \in Nat /\ tripped \in Seq(Nat)
  /\ \A i \in DOMAIN tripped : tripped[i] <= wall
  /\ \A i, j \in DOMAIN tripped : i <= j => tripped[i] <= tripped[j]
  /\ \E a \in 1..Len(tripped) + 1 :
        /\ trips = SubSeq(tripped, a, Len(tripped))
        /\ \A j \in 1..a - 1 : tripped[j] + Hour < wall

LoopInv ==
  /\ LoopTypes /\ RunsRecorded /\ OneUndelegated /\ HaltsThere
  /\ TripsKept /\ Loop!PagesOnTime

(* A record more.                                                          *)
LEMMA RecordsGrow ==
  ASSUME LoopTypes, NEW o \in Loop!Outcomes, Loop!Log(o)
  PROVE  /\ records' \in Seq([at : Nat, outcome : Loop!Outcomes])
         /\ records' # <<>> /\ records'[Len(records')].at = round
         /\ \A k : Logged(k) => Logged(k)'
         /\ records # <<>> => \A k : k = round => Logged(k)'
<1> DEFINE e == [at |-> round, outcome |-> o]
<1>1. e \in [at : Nat, outcome : Loop!Outcomes] /\ records' = Append(records, e)
  BY DEF LoopTypes, Loop!Log
<1>2. records \in Seq([at : Nat, outcome : Loop!Outcomes])
  BY DEF LoopTypes
<1>3. /\ records' \in Seq([at : Nat, outcome : Loop!Outcomes])
      /\ Len(records') = Len(records) + 1 /\ Len(records) \in Nat
      /\ records'[Len(records')] = e
      /\ \A i \in DOMAIN records : records'[i] = records[i]
      /\ DOMAIN records = 1..Len(records) /\ DOMAIN records' = 1..Len(records')
  BY <1>1, <1>2
<1>4. \A k : Logged(k) => Logged(k)'
  BY <1>3 DEF Logged
<1>5. ASSUME records # <<>> PROVE \A k : k = round => Logged(k)'
  <2>1. Len(records') > 1
    BY <1>2, <1>3, <1>5
  <2>2. \E i \in DOMAIN records' : i > 1 /\ records'[i].at = round
    BY <1>3, <2>1
  <2> QED BY <2>2 DEF Logged
<1> QED BY <1>3, <1>4, <1>5

(* The steps of the run between its tools.                                 *)
LEMMA RunGoesOn ==
  ASSUME LoopInv, UNCHANGED <<ran, reported, round>>, reached.at # "record",
         delegated' \in BOOLEAN, ~delegated => ~delegated',
         records' = records \/ \E o \in Loop!Outcomes : Loop!Log(o),
         reached' \in [at : LoopStages \ {"retrieve"}]
                     \cup [at : {"invoke"}, policy : {"allow", "unreached"}],
         reached'.at # "done" => records' # <<>> /\ answer' = "none" /\ reached.at # "done",
         reached'.at \in {"policy", "approval", "invoke"} => 
            \/ reached.at \in {"policy", "approval", "invoke"} 
            \/ delegated' /\ delegated,
         answer' \in {"halted", "denied", "no permission"} =>
            reached'.at = "done" /\ \E o \in Loop!Outcomes : Loop!Log(o),
         reached.at # "done"
  PROVE  (LoopTypes /\ RunsRecorded /\ OneUndelegated /\ HaltsThere)'
<1> USE DEF LoopInv
<1>1. /\ records' \in Seq([at : Nat, outcome : Loop!Outcomes])
      /\ \A k : Logged(k) => Logged(k)'
      /\ answer' \in {"halted", "denied", "no permission"} =>
            records' # <<>> /\ records'[Len(records')].at = round
  <2>1. CASE records' = records
    BY <2>1, RecordsGrow DEF LoopTypes, Logged
  <2>2. CASE \E o \in Loop!Outcomes : Loop!Log(o)
    BY <2>2, RecordsGrow
  <2> QED BY <2>1, <2>2
<1>2. LoopTypes'
  BY <1>1 DEF LoopTypes, LoopStages
<1>3. Unrun(round) /\ \A k : Unrun(k)' <=> Unrun(k)
  BY DEF RunsRecorded, Unrun
<1>4. RunsRecorded'
  <2>1. reached'.at # "record"
    BY DEF LoopStages
  <2>2. ASSUME NEW r \in ran PROVE r.at < round
    <3>1. r.at \in Nat /\ round \in Nat
      BY DEF LoopTypes
    <3>2. r.at <= round /\ r.at # round
      BY <1>3 DEF RunsRecorded, Unrun
    <3> QED BY ONLY <3>1, <3>2
  <2> QED BY <1>1, <1>3, <2>1, <2>2 DEF RunsRecorded, LoopTypes
<1>5. OneUndelegated'
  BY DEF OneUndelegated, LoopTypes, LoopStages
<1>6. HaltsThere'
  BY <1>1, <1>3 DEF HaltsThere
<1> QED BY <1>2, <1>4, <1>5, <1>6

(* Retrieval, the model's answers, permission, policy and approval.        *)
LEMMA RunAsks ==
  ASSUME LoopInv,
         \/ Loop!Retrieve \/ Loop!Final \/ Loop!Propose \/ Loop!Exhausted
         \/ \E b \in BOOLEAN : Loop!Permission(b)
         \/ \E p \in Loop!Policies, b \in BOOLEAN : Loop!Policy(p, b)
         \/ \E s \in {"pending", "approved", "error"} : Loop!Request(s)
         \/ Loop!StoreFails /\ reached.at # "record"
  PROVE  (LoopTypes /\ RunsRecorded /\ OneUndelegated /\ HaltsThere)'
<1> USE DEF LoopStages, Loop!End, Loop!None
<1>1. /\ delegated \in BOOLEAN
      /\ reached.at \notin {"retrieve", "done"} => records # <<>>
      /\ reached.at # "done" => answer = "none"
  BY DEF LoopInv, LoopTypes
<1>2. {"succeeded", "failed", "pending", "approved"} = Loop!Outcomes
  BY DEF Loop!Outcomes
<1>3. \A o \in Loop!Outcomes : Loop!Log(o) => records' # <<>>
  BY RecordsGrow DEF LoopInv
<1>4. CASE Loop!Retrieve
  BY <1>1, <1>2, <1>3, <1>4, RunGoesOn DEF Loop!Retrieve
<1>5. CASE Loop!Final
  BY <1>1, <1>2, <1>3, <1>5, RunGoesOn DEF Loop!Final
<1>6. CASE Loop!Propose
  BY <1>1, <1>6, RunGoesOn DEF Loop!Propose
<1>7. CASE Loop!Exhausted
  BY <1>1, <1>7, RunGoesOn DEF Loop!Exhausted
<1>8. ASSUME NEW b \in BOOLEAN, Loop!Permission(b)
      PROVE  (LoopTypes /\ RunsRecorded /\ OneUndelegated /\ HaltsThere)'
  <2>1. CASE Loop!Allowed(b)
    BY <1>1, <1>8, <2>1, RunGoesOn DEF Loop!Permission, Loop!Allowed
  <2>2. CASE ~Loop!Allowed(b)
    <3>1. /\ reached' = [at |-> "done"] /\ answer' = "no permission"
          /\ reached.at = "permission" /\ Loop!Log("failed")
          /\ UNCHANGED <<ran, reported, round, delegated>>
      BY <1>8, <2>2 DEF Loop!Permission
    <3>2. "failed" \in Loop!Outcomes
      BY <1>2
    <3> QED BY <1>1, <1>3, <3>1, <3>2, RunGoesOn
  <2> QED BY <2>1, <2>2
<1>9. ASSUME NEW p \in Loop!Policies, NEW b \in BOOLEAN, Loop!Policy(p, b)
      PROVE  (LoopTypes /\ RunsRecorded /\ OneUndelegated /\ HaltsThere)'
  <2>1. Loop!Judged(p, b) \in {"allow", "deny", "requires_approval"}
    BY DEF Loop!Judged, Loop!Policies
  <2>2. CASE Loop!Judged(p, b) = "deny"
    BY <1>1, <1>2, <1>3, <1>9, <2>2, RunGoesOn DEF Loop!Policy
  <2>3. CASE Loop!Judged(p, b) = "requires_approval"
    BY <1>1, <1>9, <2>3, RunGoesOn DEF Loop!Policy
  <2>4. CASE Loop!Judged(p, b) = "allow"
    BY <1>1, <1>9, <2>4, RunGoesOn DEF Loop!Policy
  <2> QED BY <2>1, <2>2, <2>3, <2>4
<1>10. ASSUME NEW s \in {"pending", "approved", "error"}, Loop!Request(s)
       PROVE  (LoopTypes /\ RunsRecorded /\ OneUndelegated /\ HaltsThere)'
  BY <1>1, <1>2, <1>3, <1>10, RunGoesOn DEF Loop!Request
<1>11. CASE Loop!StoreFails /\ reached.at # "record"
  BY <1>1, <1>11, RunGoesOn DEF Loop!StoreFails
<1> QED BY <1>4, <1>5, <1>6, <1>7, <1>8, <1>9, <1>10, <1>11

(* The tool.                                                               *)
LEMMA RunInvokes ==
  ASSUME LoopInv, NEW o \in {"succeeded", "failed"}, Loop!Invoke(o)
  PROVE  (LoopTypes /\ RunsRecorded /\ OneUndelegated /\ HaltsThere)'
<1> DEFINE tool == [at |-> round, delegated |-> delegated, policy |-> reached.policy]
<1>1. /\ reached \in [at : {"invoke"}, policy : {"allow", "unreached"}]
      /\ ran' = ran \cup {tool} /\ reached' = [at |-> "record", outcome |-> o]
      /\ UNCHANGED <<round, delegated, records, reported, answer>>
      /\ answer = "none"
  BY DEF Loop!Invoke, LoopInv, LoopTypes, LoopStages
<1>2. /\ tool \in [at : Nat, delegated : BOOLEAN, policy : {"allow", "unreached"}]
      /\ tool.at = round /\ tool.delegated = delegated
  BY <1>1 DEF LoopInv, LoopTypes
<1>3. \A q \in ran : q.at < round /\ Logged(q.at)
  <2> SUFFICES ASSUME NEW q \in ran PROVE q.at < round /\ Logged(q.at)
    OBVIOUS
  <2>1. q.at \in Nat /\ round \in Nat
    BY DEF LoopInv, LoopTypes
  <2>2. q.at <= round /\ q.at # round /\ (q.at < round => Logged(q.at))
    BY <1>1 DEF LoopInv, RunsRecorded
  <2> QED BY ONLY <2>1, <2>2
<1>4. LoopTypes'
  <2>1. IsFiniteSet(ran')
    BY <1>1, FS_AddElement DEF LoopInv, LoopTypes
  <2> QED BY <1>1, <1>2, <2>1 DEF LoopInv, LoopTypes
<1>5. \A k : (Logged(k) => Logged(k)') /\ (~Unrun(k) => ~Unrun(k)')
  BY <1>1 DEF Logged, Unrun
<1>6. RunsRecorded'
  <2>1. \A q \in ran' : q \in ran \/ q = tool
    BY <1>1
  <2>2. \A k : k = round => ~Unrun(k)'
    BY <1>1, <1>2 DEF Unrun
  <2>3. \A k \in Nat : k <= k /\ ~(k < k)
    OBVIOUS
  <2>4. ASSUME NEW q \in ran' 
        PROVE  /\ q.at <= round
               /\ q.at < round => Logged(q.at)'
    <3>1. CASE q = tool
      BY <1>2, <2>3, <3>1 DEF LoopInv, LoopTypes
    <3>2. CASE q \in ran
      BY <1>3, <1>5, <3>2 DEF LoopInv, RunsRecorded
    <3> QED BY <2>1, <3>1, <3>2
  <2>5. \A p, q \in ran' : p.at = q.at => p = q
    <3>1. \A q \in ran : q.at # round
      BY <1>1 DEF LoopInv, RunsRecorded
    <3> QED BY <1>2, <2>1, <3>1 DEF LoopInv, RunsRecorded
  <2>6. \A k \in reported : ~Unrun(k)' /\ Logged(k)'
    BY <1>5 DEF LoopInv, RunsRecorded
  <2>7. round' = round /\ reported' = reported /\ reached'.at = "record"
    BY <1>1
  <2> QED BY <2>2, <2>4, <2>5, <2>6, <2>7 DEF RunsRecorded
<1>7. OneUndelegated'
  <2>1. \A q \in ran : q.delegated
    BY <1>1 DEF LoopInv, LoopTypes, OneUndelegated
  <2>2. \A q \in ran' : ~q.delegated => q = tool /\ ~delegated
    BY <1>1, <1>2, <2>1
  <2>3. delegated' = delegated /\ reached'.at = "record"
    BY <1>1
  <2>4. \A p, q \in ran' : ~p.delegated /\ ~q.delegated => p = q
    BY <2>2
  <2>5. \A q \in ran' : ~q.delegated => ~delegated'
    BY <2>2, <2>3
  <2> QED BY <2>3, <2>4, <2>5 DEF OneUndelegated
<1>8. HaltsThere'
  BY <1>1 DEF HaltsThere
<1> QED BY <1>4, <1>6, <1>7, <1>8

(* Its record, and the next iteration.                                     *)
LEMMA RunRecords ==
  ASSUME LoopInv, NEW b \in BOOLEAN, Loop!Record(b)
  PROVE  (LoopTypes /\ RunsRecorded /\ OneUndelegated /\ HaltsThere)'
<1>1. /\ reached \in [at : {"record"}, outcome : {"succeeded", "failed"}]
      /\ reached.outcome \in Loop!Outcomes
      /\ Loop!Log(reached.outcome) /\ reached' = [at |-> "ask"]
      /\ round \in Nat /\ round' = round + 1
      /\ reported' \subseteq reported \cup {round}
      /\ UNCHANGED <<delegated, ran, answer>>
      /\ answer = "none" /\ records # <<>>
  BY DEF Loop!Record, LoopInv, LoopTypes, LoopStages, Loop!Outcomes
<1>2. /\ records' \in Seq([at : Nat, outcome : Loop!Outcomes]) /\ records' # <<>>
      /\ \A k : Logged(k) => Logged(k)'
      /\ \A k : k = round => Logged(k)'
  BY <1>1, RecordsGrow DEF LoopInv
<1>3. LoopTypes'
  BY <1>1, <1>2 DEF LoopInv, LoopTypes, LoopStages
<1>4. \A k : Unrun(k)' <=> Unrun(k)
  BY <1>1 DEF Unrun
<1>5. ~Unrun(round)
  BY <1>1 DEF LoopInv, RunsRecorded
<1>6. ASSUME NEW q \in ran
      PROVE  /\ q.at <= round + 1 /\ q.at # round + 1
             /\ Logged(q.at)'
  <2>1. q.at \in Nat /\ q.at <= round /\ (q.at < round => Logged(q.at))
    BY DEF LoopInv, LoopTypes, RunsRecorded
  <2>2. q.at < round \/ q.at = round
    BY <1>1, <2>1
  <2>3. q.at <= round + 1 /\ q.at # round + 1
    BY ONLY <1>1, <2>1
  <2> QED BY <1>2, <2>1, <2>2, <2>3
<1>7. RunsRecorded'
  BY <1>1, <1>2, <1>4, <1>5, <1>6 DEF LoopInv, RunsRecorded
<1>8. OneUndelegated'
  BY <1>1 DEF LoopInv, OneUndelegated
<1>9. HaltsThere'
  BY <1>1 DEF HaltsThere
<1> QED BY <1>3, <1>7, <1>8, <1>9

(* The log fails after a tool, or the delegation is revoked.               *)
LEMMA RunDisturbed ==
  ASSUME LoopInv, (Loop!StoreFails /\ reached.at = "record") \/ Loop!Revoke
  PROVE  (LoopTypes /\ RunsRecorded /\ OneUndelegated /\ HaltsThere)'
<1>1. \A k : (Unrun(k)' <=> Unrun(k)) /\ (Logged(k)' <=> Logged(k))
  BY DEF Loop!StoreFails, Loop!Revoke, Unrun, Logged
<1>2. CASE Loop!StoreFails /\ reached.at = "record"
  <2>1. /\ reached' = [at |-> "done"] /\ answer' = "error" /\ answer = "none"
        /\ UNCHANGED <<round, delegated, ran, records, reported>>
    BY <1>2 DEF Loop!StoreFails, Loop!End, LoopInv, LoopTypes
  <2> QED BY <1>1, <2>1
          DEF LoopInv, LoopTypes, LoopStages, RunsRecorded, OneUndelegated, HaltsThere
<1>3. CASE Loop!Revoke
  <2>1. /\ delegated /\ delegated' = FALSE
        /\ UNCHANGED <<reached, round, ran, records, reported, answer>>
    BY <1>3 DEF Loop!Revoke
  <2> QED BY <1>1, <2>1
          DEF LoopInv, LoopTypes, LoopStages, RunsRecorded, OneUndelegated, HaltsThere
<1> QED BY <1>2, <1>3

(* What is recent begins at the first trip that is.                        *)
LEMMA RecentBegins ==
  ASSUME TripsNumbered, wall \in Nat, NEW ts \in Seq(Nat), ts # <<>>, ts[Len(ts)] = wall
  PROVE  \E b \in DOMAIN ts : /\ Loop!Recent(ts) = SubSeq(ts, b, Len(ts))
                              /\ ts[b] + Hour >= wall
                              /\ \A j \in 1..b - 1 : ts[j] + Hour < wall
<1> DEFINE S == {i \in DOMAIN ts : ts[i] + Hour >= wall}
<1> DEFINE First(b) == ts[b] + Hour >= wall /\ \A j \in 1..b - 1 : ts[j] + Hour < wall
<1>1. /\ DOMAIN ts = 1..Len(ts) /\ Len(ts) \in Nat /\ Len(ts) >= 1
      /\ \A j \in 1..Len(ts) : ts[j] \in Nat
  OBVIOUS
<1>2. Len(ts) \in S /\ S \subseteq Nat
  BY <1>1 DEF TripsNumbered
<1>3. PICK b \in S : \A j \in S : b <= j
  BY <1>2, LeastOf
<1>4. ASSUME NEW j \in 1..b - 1 PROVE ts[j] + Hour < wall
  <2>1. j \in 1..Len(ts) /\ j < b /\ b \in 1..Len(ts)
    BY <1>1, <1>3
  <2>2. j \notin S
    BY <1>3, <2>1
  <2>3. ts[j] \in Nat
    BY <1>1, <2>1
  <2>4. ~(ts[j] + Hour >= wall)
    BY <1>1, <2>1, <2>2
  <2> QED BY ONLY <2>3, <2>4, TripsNumbered, wall \in Nat DEF TripsNumbered
<1>5. b \in DOMAIN ts /\ First(b)
  BY <1>3, <1>4
<1> DEFINE c == CHOOSE i \in DOMAIN ts : First(i)
<1>6. c \in DOMAIN ts /\ First(c)
  BY <1>5, Zenon
<1>7. Loop!Recent(ts) = SubSeq(ts, c, Len(ts))
  BY DEF Loop!Recent
<1> QED BY <1>6, <1>7

(* Cardinality is that of the library.                                     *)
LEMMA LoopCounts == \A S : Loop!Cardinality(S) = Cardinality(S)
BY Zenon DEF Loop!Cardinality, Cardinality, Loop!IsFiniteSet, IsFiniteSet

Near(s, i) == {j \in 1..i : s[j] + Hour >= s[i]}

Pages(s) == {s[i] : i \in {j \in 1..Len(s) : Cardinality(Near(s, j)) > Threshold}}
Newest(s) == SubSeq(s, IF Len(s) > MaxQueue THEN Len(s) - MaxQueue + 1 ELSE 1, Len(s))

(* The end of a sequence from a place, and when two sequences are the same. *)
LEMMA EndOf ==
  ASSUME NEW s \in Seq(Nat), NEW b \in 1..Len(s) + 1
  PROVE  /\ SubSeq(s, b, Len(s)) \in Seq(Nat) /\ Len(SubSeq(s, b, Len(s))) = Len(s) - b + 1
         /\ \A i \in 1..Len(s) - b + 1 : SubSeq(s, b, Len(s))[i] = s[b - 1 + i]
OBVIOUS

LEMMA TailOf ==
  ASSUME NEW s \in Seq(Nat), Len(s) >= 1
  PROVE  /\ Tail(s) \in Seq(Nat) /\ Len(Tail(s)) = Len(s) - 1
         /\ \A i \in 1..Len(s) - 1 : Tail(s)[i] = s[i + 1]
OBVIOUS

LEMMA SameSeq ==
  ASSUME NEW s \in Seq(Nat), NEW t \in Seq(Nat), Len(s) = Len(t),
         \A i \in 1..Len(s) : s[i] = t[i]
  PROVE  s = t
OBVIOUS

(* The windows of the trips and of all trips, after one more.              *)
LEMMA TripWindow ==
  ASSUME TripsNumbered, TripsKept, Loop!Trip
  PROVE  /\ TripsKept'
         /\ Len(trips') = Cardinality(Near(tripped', Len(tripped')))
<1> DEFINE n  == Len(tripped)
           ts == Append(trips, wall)
           nt == Append(tripped, wall)
<1>1. /\ n \in Nat /\ tripped \in Seq(Nat) /\ wall \in Nat /\ Hour \in Nat
      /\ \A i \in 1..n : tripped[i] \in Nat /\ tripped[i] <= wall
      /\ \A i, j \in 1..n : i <= j => tripped[i] <= tripped[j]
  BY DEF TripsKept, TripsNumbered
<1>2. /\ nt \in Seq(Nat) /\ Len(nt) = n + 1 /\ nt[n + 1] = wall
      /\ \A i \in 1..n : nt[i] = tripped[i]
      /\ \A i \in 1..n + 1 : nt[i] \in Nat
  BY <1>1
<1> HIDE DEF n, ts, nt
<1>3. PICK a \in 1..n + 1 : /\ trips = SubSeq(tripped, a, n)
                            /\ \A j \in 1..a - 1 : tripped[j] + Hour < wall
  BY DEF TripsKept, n
<1>4. /\ a \in 1..n + 1 /\ ts \in Seq(Nat) /\ Len(ts) = n - a + 2
      /\ \A i \in 1..n - a + 2 : ts[i] = nt[a - 1 + i]
  <2>1. trips \in Seq(Nat) /\ Len(trips) = n - a + 1
        /\ \A i \in 1..n - a + 1 : trips[i] = tripped[a - 1 + i]
    BY <1>1, <1>3, EndOf DEF n
  <2>2. ts \in Seq(Nat) /\ Len(ts) = n - a + 2 /\ ts[n - a + 2] = wall
        /\ \A i \in 1..n - a + 1 : ts[i] = trips[i]
    BY <1>1, <1>3, <2>1 DEF ts
  <2>3. ASSUME NEW i \in 1..n - a + 2 PROVE ts[i] = nt[a - 1 + i]
    <3>1. CASE i = n - a + 2
      <4>1. a - 1 + i = n + 1
        BY <1>1, <1>3, <3>1
      <4> QED BY <1>2, <2>2, <3>1, <4>1
    <3>2. CASE i \in 1..n - a + 1
      <4>1. a - 1 + i \in 1..n
        BY <1>1, <1>3, <3>2
      <4> QED BY <1>2, <2>1, <2>2, <3>2, <4>1
    <3> QED BY <1>1, <1>3, <3>1, <3>2
  <2> QED BY <1>3, <2>2, <2>3
<1>5. ts # <<>> /\ ts[Len(ts)] = wall
  <2>1. n - a + 2 \in 1..n - a + 2 /\ a - 1 + (n - a + 2) = n + 1
    BY <1>1, <1>4
  <2> QED BY <1>2, <1>4, <2>1
<1>6. PICK b \in DOMAIN ts : /\ Loop!Recent(ts) = SubSeq(ts, b, Len(ts))
                             /\ ts[b] + Hour >= wall
                             /\ \A j \in 1..b - 1 : ts[j] + Hour < wall
  BY <1>1, <1>4, <1>5, RecentBegins
<1> DEFINE c == a - 1 + b
<1>7. /\ b \in 1..n - a + 2 /\ c \in 1..n + 1
      /\ b \in 1..Len(ts) + 1 /\ c \in 1..Len(nt) + 1
      /\ n \in Nat /\ a \in 1..n + 1 /\ c = a - 1 + b
      /\ Len(ts) = n - a + 2 /\ Len(nt) = n + 1
  <2>1. b \in 1..Len(ts)
    BY <1>4, <1>6
  <2>2. n \in Nat /\ a \in 1..n + 1 /\ b \in 1..n - a + 2
    BY <1>1, <1>4, <2>1
  <2>3. c \in 1..n + 1
    BY <2>2
  <2>4. b \in 1..Len(ts) + 1 /\ c \in 1..Len(nt) + 1
    <3>1. Len(ts) = n - a + 2 /\ Len(nt) = n + 1
      BY <1>2, <1>4
    <3> QED BY <2>2, <2>3, <3>1
  <2>5. c = a - 1 + b
    OBVIOUS
  <2> QED BY <1>2, <1>4, <2>2, <2>3, <2>4, <2>5
<1> HIDE DEF c
<1>8. trips' = SubSeq(nt, c, n + 1) /\ Len(trips') = n + 2 - c
  <2>1. trips' = SubSeq(ts, b, n - a + 2)
    BY <1>4, <1>6 DEF Loop!Trip, ts
  <2>2. /\ SubSeq(ts, b, Len(ts)) \in Seq(Nat) /\ Len(SubSeq(ts, b, Len(ts))) = Len(ts) - b + 1
        /\ \A i \in 1..Len(ts) - b + 1 : SubSeq(ts, b, Len(ts))[i] = ts[b - 1 + i]
    BY <1>4, <1>7, EndOf
  <2>3. /\ SubSeq(nt, c, Len(nt)) \in Seq(Nat) /\ Len(SubSeq(nt, c, Len(nt))) = Len(nt) - c + 1
        /\ \A i \in 1..Len(nt) - c + 1 : SubSeq(nt, c, Len(nt))[i] = nt[c - 1 + i]
    BY <1>2, <1>7, EndOf
  <2>4. Len(ts) - b + 1 = n + 2 - c /\ Len(nt) - c + 1 = n + 2 - c
    BY <1>7
  <2>5. ASSUME NEW i \in 1..n + 2 - c
        PROVE  SubSeq(ts, b, Len(ts))[i] = SubSeq(nt, c, Len(nt))[i]
    <3>1. i \in Nat /\ 1 <= i /\ i <= n + 2 - c
      BY <1>7
    <3>2. n \in Nat /\ a \in 1..n + 1 /\ b \in 1..n - a + 2 /\ c = a - 1 + b
      BY <1>7
    <3>3. b - 1 + i \in 1..n - a + 2 /\ a - 1 + (b - 1 + i) = c - 1 + i
      BY ONLY <3>1, <3>2
    <3> QED BY <1>4, <2>2, <2>3, <2>4, <3>3
  <2>6. SubSeq(ts, b, Len(ts)) = SubSeq(nt, c, Len(nt))
    BY <2>2, <2>3, <2>4, <2>5, SameSeq
  <2> QED BY <1>2, <1>4, <2>1, <2>2, <2>4, <2>6
<1>9. \A j \in 1..c - 1 : nt[j] + Hour < wall
  <2> SUFFICES ASSUME NEW j \in 1..c - 1 PROVE nt[j] + Hour < wall
    OBVIOUS
  <2>1. CASE j < a
    <3>1. j \in 1..a - 1 /\ j \in 1..n
      BY <1>7, <2>1
    <3> QED BY <1>2, <1>3, <3>1
  <2>2. CASE j >= a
    <3>1. /\ j - a + 1 \in 1..b - 1 /\ j - a + 1 \in 1..n - a + 2
          /\ a - 1 + (j - a + 1) = j
      BY <1>7, <2>2
    <3> QED BY <1>4, <1>6, <3>1
  <2> QED BY <1>4, <1>7, <2>1, <2>2
<1>10. \A i, j \in 1..n + 1 : i <= j => nt[i] <= nt[j]
  <2> SUFFICES ASSUME NEW i \in 1..n + 1, NEW j \in 1..n + 1, i <= j PROVE nt[i] <= nt[j]
    OBVIOUS
  <2>1. CASE j = n + 1
    BY <1>1, <1>2, <2>1
  <2>2. CASE j # n + 1
    <3>1. i \in 1..n /\ j \in 1..n
      BY <1>1, <2>2
    <3> QED BY <1>1, <1>2, <3>1
  <2> QED BY <2>1, <2>2
<1>11. nt[c] + Hour >= wall
  BY <1>4, <1>6, <1>7
<1>12. Near(nt, n + 1) = c..n + 1
  <2>1. ASSUME NEW j \in 1..n + 1 PROVE nt[j] + Hour >= wall <=> j \in c..n + 1
    <3>1. CASE j < c
      <4>1. j \in 1..c - 1 /\ j \notin c..n + 1
        BY <1>7, <3>1
      <4>2. nt[j] + Hour < wall /\ nt[j] \in Nat
        BY <1>2, <1>9, <4>1
      <4> QED BY ONLY <1>1, <4>1, <4>2
    <3>2. CASE j >= c
      <4>1. nt[c] <= nt[j] /\ nt[c] \in Nat /\ nt[j] \in Nat /\ j \in c..n + 1
        BY <1>2, <1>7, <1>10, <3>2
      <4>2. wall \in Nat /\ Hour \in Nat
        BY <1>1
      <4> QED BY ONLY <1>11, <4>1, <4>2
    <3> QED BY <1>7, <3>1, <3>2
  <2>2. c..n + 1 \subseteq 1..n + 1
    BY <1>7
  <2> QED BY <1>2, <2>1, <2>2 DEF Near
<1>13. Cardinality(c..n + 1) = n + 2 - c
  BY <1>1, <1>7, FS_Interval
<1>14. tripped' = nt /\ wall' = wall
  BY DEF Loop!Trip, nt
<1>15. TripsKept'
  <2>1. wall' \in Nat /\ tripped' \in Seq(Nat) /\ Len(tripped') = n + 1
    BY <1>1, <1>2, <1>14
  <2>2. \A i \in DOMAIN tripped' : tripped'[i] <= wall'
    BY <1>1, <1>2, <1>14
  <2>3. \A i, j \in DOMAIN tripped' : i <= j => tripped'[i] <= tripped'[j]
    BY <1>2, <1>10, <1>14
  <2>4. \E x \in 1..Len(tripped') + 1 :
           /\ trips' = SubSeq(tripped', x, Len(tripped'))
           /\ \A j \in 1..x - 1 : tripped'[j] + Hour < wall'
    <3>1. c \in 1..Len(tripped') + 1
      BY <1>1, <1>7, <2>1
    <3> QED BY <1>8, <1>9, <1>14, <2>1, <3>1
  <2> QED BY <2>1, <2>2, <2>3, <2>4 DEF TripsKept
<1> QED BY <1>2, <1>8, <1>12, <1>13, <1>14, <1>15

(* The trip of this moment is paged if it is the one too many.             *)
LEMMA TripPages ==
  ASSUME TripsNumbered, TripsKept, Loop!Trip, pages = Pages(tripped)
  PROVE  pages' = Pages(tripped')
<1> DEFINE n  == Len(tripped)
           nt == Append(tripped, wall)
<1>1. n \in Nat /\ tripped \in Seq(Nat) /\ wall \in Nat
  BY DEF TripsKept
<1>2. /\ nt \in Seq(Nat) /\ Len(nt) = n + 1 /\ nt[n + 1] = wall
      /\ \A i \in 1..n : nt[i] = tripped[i]
  BY <1>1
<1>3. tripped' = nt /\ Len(trips') = Cardinality(Near(tripped', Len(tripped')))
  BY TripWindow DEF Loop!Trip
<1>4. pages' = IF Len(trips') > Threshold THEN pages \cup {wall} ELSE pages
  BY DEF Loop!Trip, Loop!Exceeds
<1> DEFINE Old == {j \in 1..n : Cardinality(Near(tripped, j)) > Threshold}
           Now == {j \in 1..n + 1 : Cardinality(Near(nt, j)) > Threshold}
<1> HIDE DEF nt, n
<1>5. \A i \in 1..n : Near(nt, i) = Near(tripped, i)
  <2> SUFFICES ASSUME NEW i \in 1..n PROVE Near(nt, i) = Near(tripped, i)
    OBVIOUS
  <2>1. \A j \in 1..i : j \in 1..n
    BY <1>1
  <2> QED BY <1>2, <2>1 DEF Near
<1>6. 1..n + 1 = (1..n) \cup {n + 1} /\ n + 1 \notin 1..n
  BY <1>1
<1>7. Pages(tripped) = {tripped[i] : i \in Old} /\ Pages(nt) = {nt[i] : i \in Now}
  BY <1>2 DEF Pages, n
<1>8. Now = IF Cardinality(Near(nt, n + 1)) > Threshold THEN Old \cup {n + 1} ELSE Old
  BY <1>5, <1>6
<1>9. {nt[i] : i \in Old} = {tripped[i] : i \in Old}
  BY <1>2
<1>10. Pages(nt) = IF Cardinality(Near(nt, n + 1)) > Threshold
                   THEN Pages(tripped) \cup {wall} ELSE Pages(tripped)
  <2> HIDE DEF Old, Now
  <2>1. CASE Cardinality(Near(nt, n + 1)) > Threshold
    <3>1. {nt[i] : i \in Old \cup {n + 1}} = {nt[i] : i \in Old} \cup {nt[n + 1]}
      OBVIOUS
    <3> QED BY <1>2, <1>7, <1>8, <1>9, <2>1, <3>1
  <2>2. CASE ~(Cardinality(Near(nt, n + 1)) > Threshold)
    BY <1>7, <1>8, <1>9, <2>2
  <2> QED BY <2>1, <2>2
<1> QED BY <1>2, <1>3, <1>4, <1>10

(* The queue has the newest trips.                                         *)
LEMMA TripQueues ==
  ASSUME TripsNumbered, TripsKept, Loop!Trip, waiting = Newest(tripped)
  PROVE  waiting' = Newest(tripped')
<1> DEFINE n == Len(tripped)
           f == IF n > MaxQueue THEN n - MaxQueue + 1 ELSE 1
           all == Append(waiting, wall)
           nt == Append(tripped, wall)
<1>1. n \in Nat /\ tripped \in Seq(Nat) /\ wall \in Nat /\ MaxQueue \in Nat
  BY DEF TripsKept, TripsNumbered
<1>2. f \in 1..n + 1 /\ waiting = SubSeq(tripped, f, n)
  BY <1>1 DEF Newest
<1>3. /\ nt \in Seq(Nat) /\ Len(nt) = n + 1 /\ nt[n + 1] = wall
      /\ \A i \in 1..n : nt[i] = tripped[i]
  BY <1>1
<1> HIDE DEF f
<1>4. /\ waiting \in Seq(Nat) /\ Len(waiting) = n - f + 1
      /\ \A i \in 1..n - f + 1 : waiting[i] = tripped[f - 1 + i]
  <2>1. tripped \in Seq(Nat) /\ f \in 1..Len(tripped) + 1
    BY <1>1, <1>2
  <2> QED BY <1>2, <2>1, EndOf
<1> HIDE DEF n
<1>5. /\ all \in Seq(Nat) /\ Len(all) = n - f + 2
      /\ all[n - f + 2] = wall /\ \A i \in 1..n - f + 1 : all[i] = waiting[i]
  <2>1. /\ all \in Seq(Nat) /\ Len(all) = Len(waiting) + 1 /\ all[Len(waiting) + 1] = wall
        /\ \A i \in 1..Len(waiting) : all[i] = waiting[i]
    <3>1. waiting \in Seq(Nat) /\ wall \in Nat
      BY <1>1, <1>4
    <3> QED BY ONLY <3>1
  <2>2. Len(waiting) + 1 = n - f + 2
    <3>1. n \in Nat /\ f \in 1..n + 1 /\ Len(waiting) = n - f + 1
      BY <1>1, <1>2, <1>4
    <3> QED BY ONLY <3>1
  <2> QED BY <1>4, <2>1, <2>2
<1>6. tripped' = nt /\ waiting' = IF Len(all) > MaxQueue THEN Tail(all) ELSE all
  BY DEF Loop!Trip
<1> DEFINE g == IF n + 1 > MaxQueue THEN n + 1 - MaxQueue + 1 ELSE 1
<1>7. Newest(nt) = SubSeq(nt, g, n + 1)
  BY <1>1, <1>3 DEF Newest
<1> HIDE DEF all, nt
<1>8. f \in 1..n + 1 /\ g \in 1..n + 2 /\ (Len(all) > MaxQueue => g = f + 1)
      /\ (~(Len(all) > MaxQueue) => g = f)
  <2>1. /\ MaxQueue \in Nat /\ n \in Nat /\ f \in 1..n + 1
        /\ Len(all) = n - f + 2
    BY <1>1, <1>2, <1>5
  <2>2. CASE n > MaxQueue
    BY <2>1, <2>2 DEF f
  <2>3. CASE ~(n > MaxQueue)
    BY <2>1, <2>3 DEF f
  <2> QED BY <2>2, <2>3
<1> HIDE DEF g
<1>9. \A i \in 1..n - f + 2 : all[i] = nt[f - 1 + i]
  <2> SUFFICES ASSUME NEW i \in 1..n - f + 2 PROVE all[i] = nt[f - 1 + i]
    OBVIOUS
  <2>1. CASE i = n - f + 2
    <3>1. f - 1 + i = n + 1
      BY <1>1, <1>8, <2>1
    <3> QED BY <1>3, <1>5, <2>1, <3>1
  <2>2. CASE i \in 1..n - f + 1
    <3>1. f - 1 + i \in 1..n
      BY <1>1, <1>8, <2>2
    <3> QED BY <1>3, <1>4, <1>5, <2>2, <3>1
  <2> QED BY <1>1, <1>8, <2>1, <2>2
<1>10. /\ SubSeq(nt, g, n + 1) \in Seq(Nat) /\ Len(SubSeq(nt, g, n + 1)) = n + 2 - g
       /\ \A i \in 1..n + 2 - g : SubSeq(nt, g, n + 1)[i] = nt[g - 1 + i]
  <2>1. g \in 1..Len(nt) + 1 /\ Len(nt) - g + 1 = n + 2 - g
    BY <1>1, <1>3, <1>8
  <2>2. /\ SubSeq(nt, g, Len(nt)) \in Seq(Nat)
        /\ Len(SubSeq(nt, g, Len(nt))) = Len(nt) - g + 1
        /\ \A i \in 1..Len(nt) - g + 1 : SubSeq(nt, g, Len(nt))[i] = nt[g - 1 + i]
    BY <1>3, <2>1, EndOf
  <2>3. Len(nt) = n + 1
    BY <1>3
  <2> QED BY <2>1, <2>2, <2>3
<1>11. CASE ~(Len(all) > MaxQueue)
  <2>1. g = f /\ n + 2 - g = n - f + 2
    BY <1>1, <1>8, <1>11
  <2>2. SubSeq(nt, g, n + 1) = all
    <3>1. /\ SubSeq(nt, g, n + 1) \in Seq(Nat) /\ all \in Seq(Nat)
          /\ Len(SubSeq(nt, g, n + 1)) = n - f + 2 /\ Len(all) = n - f + 2
      BY <1>5, <1>10, <2>1
    <3>2. \A i \in 1..n - f + 2 : SubSeq(nt, g, n + 1)[i] = all[i]
      BY <1>9, <1>10, <2>1
    <3> QED BY <3>1, <3>2, SameSeq
  <2> QED BY <1>6, <1>7, <1>11, <2>2
<1>12. CASE Len(all) > MaxQueue
  <2>1. g = f + 1 /\ n + 2 - g = n - f + 1 /\ n - f + 1 \in Nat
    BY <1>1, <1>8, <1>12
  <2>2. /\ Tail(all) \in Seq(Nat) /\ Len(Tail(all)) = n - f + 1
        /\ \A i \in 1..n - f + 1 : Tail(all)[i] = all[i + 1]
    <3>1. Len(all) = n - f + 2 /\ Len(all) >= 1 /\ Len(all) - 1 = n - f + 1
      <4>1. Len(all) = n - f + 2
        BY <1>5
      <4> QED BY <1>1, <1>8, <4>1
    <3> QED BY <1>5, <3>1, TailOf
  <2>3. ASSUME NEW i \in 1..n - f + 1 PROVE Tail(all)[i] = SubSeq(nt, g, n + 1)[i]
    <3>1. i + 1 \in 1..n - f + 2 /\ f - 1 + (i + 1) = g - 1 + i
      <4>1. n \in Nat /\ f \in 1..n + 1 /\ g = f + 1
        BY <1>1, <1>8, <2>1
      <4> QED BY ONLY <4>1, i \in 1..n - f + 1
    <3>2. Tail(all)[i] = all[i + 1]
      BY <2>2
    <3>3. all[i + 1] = nt[g - 1 + i]
      BY <1>9, <3>1
    <3>4. SubSeq(nt, g, n + 1)[i] = nt[g - 1 + i]
      BY <1>10, <2>1
    <3> QED BY <3>2, <3>3, <3>4
  <2>4. SubSeq(nt, g, n + 1) = Tail(all)
    BY <1>10, <2>1, <2>2, <2>3, SameSeq
  <2> QED BY <1>6, <1>7, <1>12, <2>4
<1> QED BY <1>11, <1>12

(* The property of the guardrails is about these.                          *)
LEMMA PagesAre ==
  /\ Loop!PagesOnTime <=> pages = Pages(tripped) /\ waiting = Newest(tripped)
  /\ Loop!PagesOnTime' <=> pages' = Pages(tripped') /\ waiting' = Newest(tripped')
BY LoopCounts, Zenon DEF Loop!PagesOnTime, Pages, Newest, Near

(* Trips and the clock.                                                    *)
LEMMA GuardSteps ==
  ASSUME TripsNumbered, LoopInv, Loop!Trip \/ Loop!Tick PROVE LoopInv'
<1>1. (LoopTypes /\ RunsRecorded /\ OneUndelegated /\ HaltsThere)'
  <2>1. UNCHANGED <<reached, round, delegated, ran, records, reported, answer>>
    BY DEF Loop!Trip, Loop!Tick, Loop!run
  <2>2. \A k : (Unrun(k)' <=> Unrun(k)) /\ (Logged(k)' <=> Logged(k))
    BY <2>1 DEF Unrun, Logged
  <2>3. LoopTypes'
    BY <2>1 DEF LoopInv, LoopTypes
  <2>4. RunsRecorded'
    BY <2>1, <2>2 DEF LoopInv, RunsRecorded
  <2>5. OneUndelegated'
    BY <2>1 DEF LoopInv, OneUndelegated
  <2>6. HaltsThere'
    BY <2>1, <2>2 DEF LoopInv, HaltsThere
  <2> QED BY <2>3, <2>4, <2>5, <2>6
<1>2. CASE Loop!Trip
  <2>1. TripsKept /\ pages = Pages(tripped) /\ waiting = Newest(tripped)
    BY PagesAre DEF LoopInv
  <2>2. TripsKept' /\ pages' = Pages(tripped') /\ waiting' = Newest(tripped')
    BY <1>2, <2>1, TripWindow, TripPages, TripQueues
  <2> QED BY <1>1, <2>2, PagesAre DEF LoopInv
<1>3. CASE Loop!Tick
  <2>1. wall' = wall + 1 /\ UNCHANGED <<trips, waiting, pages, tripped>>
    BY <1>3 DEF Loop!Tick
  <2>2. Loop!PagesOnTime'
    BY <2>1, PagesAre DEF LoopInv
  <2>3. TripsKept'
    <3>1. /\ wall' \in Nat /\ wall <= wall' /\ wall < wall'
          /\ \A k \in Nat : k <= wall => k <= wall'
          /\ \A k \in Nat : k + Hour < wall => k + Hour < wall'
      BY <2>1 DEF LoopInv, TripsKept, TripsNumbered
    <3>2. PICK a \in 1..Len(tripped) + 1 :
            /\ trips = SubSeq(tripped, a, Len(tripped))
            /\ \A j \in 1..a - 1 : tripped[j] + Hour < wall
      BY DEF LoopInv, TripsKept
    <3>3. /\ \A i \in DOMAIN tripped : tripped[i] \in Nat /\ tripped[i] <= wall
          /\ \A j \in 1..a - 1 : j \in DOMAIN tripped
      BY <3>2 DEF LoopInv, TripsKept
    <3>4. \A j \in 1..a - 1 : tripped[j] + Hour < wall'
      BY <3>1, <3>2, <3>3
    <3>5. \A i \in DOMAIN tripped : tripped[i] <= wall'
      BY <3>1, <3>3
    <3> QED BY <2>1, <3>1, <3>2, <3>4, <3>5 DEF LoopInv, TripsKept
  <2> QED BY <1>1, <2>2, <2>3 DEF LoopInv
<1> QED BY <1>2, <1>3

(* What the invariant says of the run.                                     *)
LEMMA RunsHold ==
  ASSUME LoopInv PROVE Loop!RunsPermitted
<1> DEFINE invoked  == {r.at : r \in ran}
           recorded == {records[i].at : i \in {j \in DOMAIN records : j > 1}}
<1>1. \A k : (k \in invoked <=> ~Unrun(k)) /\ (k \in recorded <=> Logged(k))
  BY DEF Unrun, Logged
<1>2. ASSUME NEW S, \A i, j \in S : i = j PROVE Cardinality(S) <= 1
  <2>1. CASE S = {}
    BY <2>1, FS_EmptySet
  <2>2. CASE S # {}
    <3>1. PICK x : S = {x}
      BY <1>2, <2>2
    <3> QED BY <3>1, FS_Singleton
  <2> QED BY <2>1, <2>2
<1>3. Cardinality({r \in ran : ~r.delegated}) <= 1
  BY <1>2 DEF LoopInv, OneUndelegated
<1>4. Cardinality(ran) = Cardinality(invoked)
  <2> DEFINE f == [r \in ran |-> r.at]
  <2>1. f \in [ran -> invoked]
    OBVIOUS
  <2>2. \A r, q \in ran : f[r] = f[q] => r = q
    BY DEF LoopInv, RunsRecorded
  <2>3. \A k \in invoked : \E r \in ran : f[r] = k
    OBVIOUS
  <2>4. f \in Bijection(ran, invoked)
    BY <2>1, <2>2, <2>3 DEF Bijection, Injection, Surjection, IsInjective
  <2>5. ExistsBijection(ran, invoked)
    BY <2>4 DEF ExistsBijection
  <2> QED BY <2>5, FS_Bijection DEF LoopInv, LoopTypes
<1>5. ASSUME NEW k \in invoked, k \notin recorded
      PROVE  /\ k = round
             /\ reached.at = "record" \/ answer = "error"
  <2>1. PICK r \in ran : r.at = k
    OBVIOUS
  <2>2. ~Logged(k)
    BY <1>1, <1>5
  <2>3. k \in Nat /\ round \in Nat /\ k <= round /\ ~(k < round)
    BY <2>1, <2>2 DEF LoopInv, LoopTypes, RunsRecorded
  <2>4. k = round
    BY ONLY <2>3
  <2> QED BY <2>1, <2>4 DEF LoopInv, RunsRecorded
<1>6. Cardinality(invoked \ recorded) <= 1
  BY <1>2, <1>5
<1>7. invoked \subseteq recorded \/ reached.at = "record" \/ answer = "error"
  BY <1>5
<1>8. reported \subseteq invoked \cap recorded
  BY <1>1 DEF LoopInv, RunsRecorded
<1>9. answer \in {"halted", "denied", "no permission"} =>
         round \notin invoked /\ records # <<>> /\ Loop!Last(records).at = round
  BY <1>1 DEF LoopInv, HaltsThere, Loop!Last
<1> QED BY <1>3, <1>4, <1>6, <1>7, <1>8, <1>9, LoopCounts, Zenon DEF Loop!RunsPermitted

(* Alfred keeps its invariant, which says what LoopSound promises.         *)
LEMMA LoopAlways ==
  ASSUME TripsNumbered
  PROVE  /\ Loop!Init => LoopInv
         /\ LoopInv /\ [Loop!Next]_(Loop!alfred) => LoopInv'
         /\ LoopInv => Loop!LoopSound
<1>1. ASSUME Loop!Init PROVE LoopInv
  <2>1. /\ reached = [at |-> "retrieve"] /\ round = 0 /\ delegated = TRUE
        /\ ran = {} /\ records = <<>> /\ reported = {} /\ answer = "none"
        /\ trips = <<>> /\ waiting = <<>> /\ pages = {} /\ tripped = <<>> /\ wall = 0
    BY <1>1 DEF Loop!Init, Loop!None
  <2>2. LoopTypes
    BY <2>1, FS_EmptySet DEF LoopTypes, LoopStages
  <2>3. RunsRecorded /\ OneUndelegated /\ HaltsThere
    BY <2>1 DEF RunsRecorded, OneUndelegated, HaltsThere
  <2>4. TripsKept
    <3>1. 1 \in 1..Len(tripped) + 1 /\ SubSeq(tripped, 1, Len(tripped)) = trips
      BY <2>1
    <3> QED BY <2>1, <3>1 DEF TripsKept
  <2>5. pages = Pages(tripped)
    BY <2>1 DEF Pages
  <2>6. waiting = Newest(tripped)
    BY <2>1 DEF Newest, TripsNumbered
  <2> QED BY <2>2, <2>3, <2>4, <2>5, <2>6, PagesAre DEF LoopInv
<1>2. ASSUME LoopInv, [Loop!Next]_(Loop!alfred) PROVE LoopInv'
  <2> DEFINE Asks ==
         \/ Loop!Retrieve \/ Loop!Final \/ Loop!Propose \/ Loop!Exhausted
         \/ \E b \in BOOLEAN : Loop!Permission(b)
         \/ \E p \in Loop!Policies, b \in BOOLEAN : Loop!Policy(p, b)
         \/ \E s \in {"pending", "approved", "error"} : Loop!Request(s)
         \/ Loop!StoreFails /\ reached.at # "record"
  <2> DEFINE Invokes == \E o \in {"succeeded", "failed"} : Loop!Invoke(o)
  <2> DEFINE Records == \E b \in BOOLEAN : Loop!Record(b)
  <2> DEFINE Disturbed == (Loop!StoreFails /\ reached.at = "record") \/ Loop!Revoke
  <2>1. \/ Asks \/ Invokes \/ Records \/ Disturbed
        \/ Loop!Trip \/ Loop!Tick \/ UNCHANGED Loop!alfred
    BY <1>2 DEF Loop!Next
  <2>2. CASE Asks \/ Invokes \/ Records \/ Disturbed
    <3>1. (LoopTypes /\ RunsRecorded /\ OneUndelegated /\ HaltsThere)'
      <4>1. CASE Asks
        BY <1>2, <4>1, RunAsks
      <4>2. CASE Invokes
        BY <1>2, <4>2, RunInvokes
      <4>3. CASE Records
        BY <1>2, <4>3, RunRecords
      <4>4. CASE Disturbed
        BY <1>2, <4>4, RunDisturbed
      <4> QED BY <2>2, <4>1, <4>2, <4>3, <4>4
    <3>2. UNCHANGED <<trips, waiting, pages, tripped, wall>>
      BY <2>2 DEF Loop!Retrieve, Loop!Final, Loop!Propose, Loop!Exhausted, Loop!Permission,
                  Loop!Policy, Loop!Request, Loop!StoreFails, Loop!Invoke, Loop!Record,
                  Loop!Revoke, Loop!guard
    <3>3. TripsKept' /\ Loop!PagesOnTime'
      BY <1>2, <3>2, PagesAre DEF LoopInv, TripsKept
    <3> QED BY <3>1, <3>3 DEF LoopInv
  <2>3. CASE Loop!Trip \/ Loop!Tick
    BY <1>2, <2>3, GuardSteps
  <2>4. CASE UNCHANGED Loop!alfred
    <3>1. UNCHANGED <<reached, round, delegated, ran, records, reported, answer,
                      trips, waiting, pages, tripped, wall>>
      BY <2>4 DEF Loop!alfred, Loop!run, Loop!guard
    <3>2. \A k : (Unrun(k)' <=> Unrun(k)) /\ (Logged(k)' <=> Logged(k))
      BY <3>1 DEF Unrun, Logged
    <3>3. (LoopTypes /\ RunsRecorded)'
      BY <1>2, <3>1, <3>2 DEF LoopInv, LoopTypes, RunsRecorded
    <3>4. (OneUndelegated /\ HaltsThere /\ TripsKept)'
      BY <1>2, <3>1, <3>2 DEF LoopInv, OneUndelegated, HaltsThere, TripsKept
    <3>5. Loop!PagesOnTime'
      BY <1>2, <3>1, PagesAre DEF LoopInv
    <3> QED BY <3>3, <3>4, <3>5 DEF LoopInv
  <2> QED BY <2>1, <2>2, <2>3, <2>4
<1>3. ASSUME LoopInv PROVE Loop!LoopSound
  BY <1>3, RunsHold DEF Loop!LoopSound, LoopInv
<1> QED BY <1>1, <1>2, <1>3
=============================================================================
