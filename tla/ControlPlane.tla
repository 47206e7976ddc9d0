------------------------------ MODULE ControlPlane ------------------------------
(***************************************************************************)
(* The hierarchy of tenants, business units and workspaces                 *)
(* (services/control-plane): a row in Postgres and, written after it one by *)
(* one, the OpenFGA tuples that say who may do what. A tuple whose write    *)
(* fails is not written again; no tuple is ever deleted.                   *)
(***************************************************************************)
EXTENDS Naturals, FiniteSets

CONSTANTS
    Subjects,     \* who may be signed in: the sub of the token
    Username,     \* their preferred_username, "" where the token has none
    Roles,        \* their realm roles
    Owners,       \* the sets of owners a request may name, empty or not
    Tenants, Units, Spaces

VARIABLES
    tenant,     \* tenants that are there, each with its creator
    unit,       \* rows of business units: the tenant, the creator
    space,      \* rows of workspaces: the unit, the owners, the creator, archived_at
    tuples,     \* of OpenFGA
    writing,    \* tuples a handler has yet to write
    ownedOnce,  \* for each workspace, the owners its creation named
    changed     \* what the last step did to a workspace, and who asked for it

control == <<tenant, unit, space, tuples, writing, ownedOnce, changed>>

Nobody == "nobody"
Names   == (Subjects \cup {Username[s] : s \in Subjects}) \ {""}
NoUnit  == [of |-> Nobody, by |-> Nobody]
NoSpace == [of |-> Nobody, owners |-> {}, by |-> Nobody, archived |-> FALSE]
Nothing == [op |-> "none", space |-> Nobody, by |-> Nobody]

Init ==
    /\ tenant = [t \in Tenants |-> Nobody]
    /\ unit = [u \in Units |-> NoUnit]
    /\ space = [w \in Spaces |-> NoSpace]
    /\ tuples = {} /\ writing = {}
    /\ ownedOnce = [w \in Spaces |-> {}]
    /\ changed = Nothing

-----------------------------------------------------------------------------
(* OpenFGAClient.Check, with the relations of the authorization model: the  *)
(* admins of a tenant are admins of its units, and a unit's admins members; *)
(* members view the workspaces, owners do all there is.                     *)
AdminOfTenant(s, t) == <<s, "admin", t>> \in tuples
AdminOfUnit(s, u)   ==
    \/ <<s, "admin", u>> \in tuples
    \/ \E t \in Tenants : <<t, "tenant", u>> \in tuples /\ AdminOfTenant(s, t)
CanAdmin(s, w) == <<s, "owner", w>> \in tuples
CanView(s, w)  ==
    CanAdmin(s, w) \/ \E u \in Units : <<u, "business_unit", w>> \in tuples /\ AdminOfUnit(s, u)

HasRole(s, role) == role \in Roles[s]

(* OpenFGAClient.Write: it is written, or it failed and nobody notices. A    *)
(* handler writes its tuples in turn; as any may fail, the turn is left out. *)
Write(t) ==
    /\ t \in writing
    /\ writing' = writing \ {t}
    /\ tuples' \in {tuples, tuples \cup {t}}
    /\ changed' = Nothing
    /\ UNCHANGED <<tenant, unit, space, ownedOnce>>

CreateTenant(s, t) ==
    /\ tenant[t] = Nobody
    /\ HasRole(s, "platform-admin")
    /\ tenant' = [tenant EXCEPT ![t] = s]
    /\ writing' = writing \cup {<<s, "admin", t>>}
    /\ changed' = Nothing
    /\ UNCHANGED <<unit, space, tuples, ownedOnce>>

MayCreateBU(s, t) == AdminOfTenant(s, t)

CreateBU(s, t, u) ==
    /\ unit[u] = NoUnit /\ tenant[t] # Nobody
    /\ MayCreateBU(s, t)
    /\ unit' = [unit EXCEPT ![u] = [of |-> t, by |-> s]]
    /\ writing' = writing \cup {<<t, "tenant", u>>, <<s, "admin", u>>}
    /\ changed' = Nothing
    /\ UNCHANGED <<tenant, space, tuples, ownedOnce>>

(* An owner is granted under the name he is given; the creator who names    *)
(* himself by his username is granted under his sub too.                    *)
OwnersOf(s, owners) == owners \cup {x \in {s} : Username[s] # "" /\ Username[s] \in owners}

CreateWorkspace(s, u, w, owners) ==
    /\ space[w] = NoSpace /\ unit[u] # NoUnit /\ owners # {}
    /\ AdminOfUnit(s, u) \/ HasRole(s, "tenant-admin") \/ HasRole(s, "platform-admin")
    /\ space' = [space EXCEPT ![w] = [of |-> u, owners |-> owners, by |-> s, archived |-> FALSE]]
    /\ writing' = writing \cup {<<u, "business_unit", w>>}
                          \cup {<<o, "owner", w>> : o \in OwnersOf(s, owners)}
    /\ ownedOnce' = [ownedOnce EXCEPT ![w] = owners]
    /\ changed' = [op |-> "create", space |-> w, by |-> s]
    /\ UNCHANGED <<tenant, unit, tuples>>

(* The row alone changes: the tuples remain those of the creation, and an   *)
(* archived workspace is updated like any other.                            *)
UpdateWorkspace(s, w, owners) ==
    /\ space[w] # NoSpace /\ owners # {}
    /\ CanAdmin(s, w) \/ HasRole(s, "platform-admin")
    /\ space' = [space EXCEPT ![w].owners = owners]
    /\ changed' = [op |-> "update", space |-> w, by |-> s]
    /\ UNCHANGED <<tenant, unit, tuples, writing, ownedOnce>>

MayArchive_InUnit(s, w) == CanView(s, w) \/ HasRole(s, "tenant-admin")
MayArchive(s, w) == CanAdmin(s, w) \/ HasRole(s, "platform-admin")

ArchiveWorkspace(s, w) ==
    /\ space[w] # NoSpace
    /\ MayArchive(s, w)
    /\ space' = [space EXCEPT ![w].archived = TRUE]
    /\ changed' = [op |-> "archive", space |-> w, by |-> s]
    /\ UNCHANGED <<tenant, unit, tuples, writing, ownedOnce>>

(* createGitHubInstallation asks for the same; its row is read by nothing   *)
(* that decides.                                                            *)
CreateGitHubInstallation(s, w) ==
    /\ space[w] # NoSpace
    /\ CanAdmin(s, w) \/ HasRole(s, "platform-admin")
    /\ changed' = [op |-> "connect", space |-> w, by |-> s]
    /\ UNCHANGED <<tenant, unit, space, tuples, writing, ownedOnce>>

Next ==
    \/ \E t \in writing : Write(t)
    \/ \E s \in Subjects :
         \/ \E t \in Tenants : CreateTenant(s, t) \/ \E u \in Units : CreateBU(s, t, u)
         \/ \E w \in Spaces :
              \/ ArchiveWorkspace(s, w) \/ CreateGitHubInstallation(s, w)
              \/ \E owners \in Owners :
                   \/ UpdateWorkspace(s, w, owners)
                   \/ \E u \in Units : CreateWorkspace(s, u, w, owners)

Spec == Init /\ [][Next]_control

-----------------------------------------------------------------------------
(* getWorkspace, listAllWorkspaces, listAllBUs                              *)
Reads(s)  == {w \in Spaces : space[w] # NoSpace /\ (CanView(s, w) \/ HasRole(s, "platform-admin"))}
Listed(s) == {w \in Reads(s) : ~space[w].archived}

TypeOK ==
    /\ tenant \in [Tenants -> Subjects \cup {Nobody}]
    /\ unit \in [Units -> [of : Tenants \cup {Nobody}, by : Subjects \cup {Nobody}]]
    /\ space \in [Spaces -> [of : Units \cup {Nobody}, owners : SUBSET Names,
                             by : Subjects \cup {Nobody}, archived : BOOLEAN]]
    /\ tuples \cap writing = {}
    /\ ownedOnce \in [Spaces -> SUBSET Names]

(* Whatever tuples were lost and whoever updated the rows: a tuple never    *)
(* speaks of a row that is not there; a unit is administered by an admin of *)
(* its tenant, hence by a platform-admin; and who reaches a workspace was   *)
(* named its owner when it was created, by his sub or by himself, or is a   *)
(* platform-admin. A lost tuple and a new owner without one only deny; an   *)
(* owner who was removed keeps his access (createTenant .. archiveWorkspace, *)
(* OpenFGAClient.Write).                                                    *)
Named(s, w) ==
    \/ s \in ownedOnce[w]
    \/ s = space[w].by /\ Username[s] \in ownedOnce[w]

AccessSound ==
    /\ \A w \in Spaces : space[w] # NoSpace => space[w].owners # {} /\ unit[space[w].of] # NoUnit
    /\ \A s \in Subjects :
         /\ \A u \in Units : AdminOfUnit(s, u) => unit[u] # NoUnit /\ HasRole(s, "platform-admin")
         /\ \A w \in Spaces : CanAdmin(s, w) => space[w] # NoSpace /\ Named(s, w)
         /\ \A w \in Reads(s) : Named(s, w) \/ HasRole(s, "platform-admin")
    /\ changed.op \in {"update", "archive", "connect"} =>
         Named(changed.by, changed.space) \/ HasRole(changed.by, "platform-admin")
    /\ changed.op = "create" =>
         HasRole(changed.by, "tenant-admin") \/ HasRole(changed.by, "platform-admin")
=============================================================================
