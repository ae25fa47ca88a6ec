------------------------------ MODULE Registry ------------------------------
(***************************************************************************)
(* The records an inspection refers to, and who may change them: accounts  *)
(* (server/src/config.ts, index.ts), the organization's units and members  *)
(* (operations.ts), assets, tags and defects of one site                   *)
(* (inspection-assets.ts), and the asset of a monitoring configuration     *)
(* (vision.ts).  Rows refer to rows of other tables; the database enforces *)
(* only that a membership goes with its user, the handlers do the rest.    *)
(*                                                                         *)
(* Every handler runs to its end between two others.  Texts, waypoints,    *)
(* robots and metrics, for which a handler may refuse a record too, are    *)
(* left out; so is the history of a defect.                                *)
(***************************************************************************)
EXTENDS Naturals, FiniteSets

CONSTANTS Users, Units, Assets, Tags, Defects, Configs,
          None   \* no reference

ASSUME RegistryAssumption ==
  /\ None \notin Users \cup Units \cup Assets \cup Tags \cup Defects \cup Configs
  /\ IsFiniteSet(Units)

VARIABLES
  roles,    \* user -> role on the site, "none" without an account
  units,    \* unit -> [kind, parent]
  members,  \* user -> [department, position]
  assets,   \* assets on record
  tags,     \* tag -> its asset, None when there is no such tag
  defects,  \* defect -> [status, asset, tag, assignedTo]
  watches   \* monitoring configuration -> [exists, asset]

orgVars == <<units, members>>
siteVars == <<assets, tags, defects, watches>>
regVars == <<roles, orgVars, siteVars>>

-----------------------------------------------------------------------------
Roles == {"none", "viewer", "operator", "admin"}
Kinds == {"factory", "department", "position"}
NoUnit   == [kind |-> "none", parent |-> None]
NoMember == [department |-> None, position |-> None]
NoDefect == [status |-> "none", asset |-> None, tag |-> None, assignedTo |-> None]
NoWatch  == [exists |-> FALSE, asset |-> None]

\* bootUsers seeds an empty table with an account of each role.
RegInit ==
  /\ roles \in [Users -> Roles] /\ \E u \in Users : roles[u] = "admin"
  /\ units = [u \in Units |-> NoUnit] /\ members = [u \in Users |-> NoMember]
  /\ assets = {} /\ tags = [t \in Tags |-> None]
  /\ defects = [d \in Defects |-> NoDefect]
  /\ watches = [c \in Configs |-> NoWatch]

\* requireRole: somebody who may do it.
Somebody(accepted) == \E u \in Users : roles[u] \in accepted
Admin    == Somebody({"admin"})
Operates == Somebody({"admin", "operator"})

-----------------------------------------------------------------------------
(* Accounts.                                                               *)

CreateUser(u, role) ==
  /\ Admin /\ roles[u] = "none" /\ roles' = [roles EXCEPT ![u] = role]
  /\ UNCHANGED <<orgVars, siteVars>>
UpdateUser(u, role) ==
  /\ Admin /\ roles[u] # "none" /\ roles' = [roles EXCEPT ![u] = role]
  /\ UNCHANGED <<orgVars, siteVars>>

\* By another administrator, and never the last one.
DeleteUser(u) ==
  /\ \E other \in Users \ {u} : roles[other] = "admin"
  /\ roles[u] # "none" /\ roles' = [roles EXCEPT ![u] = "none"]
  /\ members' = [members EXCEPT ![u] = NoMember]
  /\ UNCHANGED <<units, siteVars>>

-----------------------------------------------------------------------------
(* The organization.                                                       *)

\* The units met on the way up from x, as far as they are on record.
Above(x) ==
  LET up[n \in 0..Cardinality(Units)] ==
        IF n = 0 THEN {x} ELSE up[n-1] \cup {units[v].parent : v \in up[n-1] \ {None}}
  IN up[Cardinality(Units)] \ {None}

InUse(x) ==
  \/ \E v \in Units : units[v].parent = x
  \/ \E u \in Users : x \in {members[u].department, members[u].position}

ParentFits(x, kind, parent) ==
  /\ units[parent].kind \in {"factory", "department"} /\ kind # "factory"
  /\ x \notin Above(parent)

\* saveUnit, of POST and PATCH.
SaveUnit(x, kind, parent) ==
  /\ Admin
  /\ parent # None => ParentFits(x, kind, parent)
  /\ units[x].kind \notin {"none", kind} => ~InUse(x)
  /\ units' = [units EXCEPT ![x] = [kind |-> kind, parent |-> parent]]
  /\ UNCHANGED <<roles, members, siteVars>>

DeleteUnit(x) ==
  /\ Admin /\ units[x].kind # "none" /\ ~InUse(x)
  /\ units' = [units EXCEPT ![x] = NoUnit]
  /\ UNCHANGED <<roles, members, siteVars>>

IsKind(x, kind) == x # None => units[x].kind = kind

PutMember(u, d, p) ==
  /\ Admin /\ roles[u] # "none" /\ IsKind(d, "department") /\ IsKind(p, "position")
  /\ members' = [members EXCEPT ![u] = [department |-> d, position |-> p]]
  /\ UNCHANGED <<roles, units, siteVars>>

-----------------------------------------------------------------------------
(* Assets, tags and what refers to them.                                   *)

CreateAsset(a) ==
  /\ Admin /\ a \notin assets /\ assets' = assets \cup {a}
  /\ UNCHANGED <<roles, orgVars, tags, defects, watches>>

\* Variant: what a camera watches is forgotten.
AssetUnreferenced(a) ==
  /\ \A d \in Defects : defects[d].asset # a
  /\ \A t \in Tags : tags[t] # a
Unreferenced(a) ==
  /\ \A d \in Defects : defects[d].asset # a
  /\ \A t \in Tags : tags[t] # a
  /\ \A c \in Configs : watches[c].asset # a
DeleteAsset(a) ==
  /\ Admin /\ a \in assets /\ Unreferenced(a)
  /\ assets' = assets \ {a}
  /\ UNCHANGED <<roles, orgVars, tags, defects, watches>>

HasDefects(t) == \E d \in Defects : defects[d].tag = t

\* A tag with defects stays with its asset.
SaveTag(t, a) ==
  /\ Admin /\ a \in assets
  /\ tags[t] \in {None, a} \/ ~HasDefects(t)
  /\ tags' = [tags EXCEPT ![t] = a]
  /\ UNCHANGED <<roles, orgVars, assets, defects, watches>>
DeleteTag(t) ==
  /\ Admin /\ tags[t] # None /\ ~HasDefects(t)
  /\ tags' = [tags EXCEPT ![t] = None]
  /\ UNCHANGED <<roles, orgVars, assets, defects, watches>>

\* validateDefect: the asset of a tag is the asset of its defect.
Valid(a, t, u) ==
  /\ a \in assets \cup {None}
  /\ t # None => tags[t] # None /\ a \in {None, tags[t]}
  /\ u # None => roles[u] \in {"operator", "admin"}
Changed(d, status, a, t, u) ==
  defects' = [defects EXCEPT ![d] =
    [status |-> status, asset |-> IF t # None THEN tags[t] ELSE a,
     tag |-> t, assignedTo |-> u]]

CreateDefect(d, a, t, u) ==
  /\ Operates /\ defects[d].status = "none" /\ Valid(a, t, u)
  /\ Changed(d, "open", a, t, u)
  /\ UNCHANGED <<roles, orgVars, assets, tags, watches>>

\* A closed defect is reopened before it is edited.
PatchDefect(d, a, t, u) ==
  /\ Operates /\ defects[d].status \in {"open", "in_progress"} /\ Valid(a, t, u)
  /\ Changed(d, defects[d].status, a, t, u)
  /\ UNCHANGED <<roles, orgVars, assets, tags, watches>>

\* POST updates: work and its end have a responsible operator.
UpdateDefect(d, status) ==
  /\ Operates /\ defects[d].status # "none"
  /\ status # "open" => defects[d].assignedTo # None
  /\ defects' = [defects EXCEPT ![d].status = status]
  /\ UNCHANGED <<roles, orgVars, assets, tags, watches>>

SaveWatch(c, a) ==
  /\ Admin /\ a \in assets \cup {None}
  /\ watches' = [watches EXCEPT ![c] = [exists |-> TRUE, asset |-> a]]
  /\ UNCHANGED <<roles, orgVars, assets, tags, defects>>
DeleteWatch(c) ==
  /\ Admin /\ watches[c].exists /\ watches' = [watches EXCEPT ![c] = NoWatch]
  /\ UNCHANGED <<roles, orgVars, assets, tags, defects>>

-----------------------------------------------------------------------------
Accounts ==
  \E u \in Users : \/ DeleteUser(u)
                   \/ \E r \in Roles \ {"none"} : CreateUser(u, r) \/ UpdateUser(u, r)
Organization ==
  \/ \E u \in Users, d, p \in Units \cup {None} : PutMember(u, d, p)
  \/ \E x \in Units : \/ DeleteUnit(x)
                      \/ \E k \in Kinds, p \in Units \cup {None} : SaveUnit(x, k, p)
Records ==
  \/ \E a \in Assets : CreateAsset(a) \/ DeleteAsset(a) \/ \E t \in Tags : SaveTag(t, a)
  \/ \E t \in Tags : DeleteTag(t)
  \/ \E d \in Defects :
       \/ \E a \in Assets \cup {None}, t \in Tags \cup {None}, u \in Users \cup {None} :
            CreateDefect(d, a, t, u) \/ PatchDefect(d, a, t, u)
       \/ \E status \in {"open", "in_progress", "closed"} : UpdateDefect(d, status)
  \/ \E c \in Configs : DeleteWatch(c) \/ \E a \in Assets \cup {None} : SaveWatch(c, a)
RegNext == Accounts \/ Organization \/ Records

RegSpec == RegInit /\ [][RegNext]_regVars

-----------------------------------------------------------------------------
RegTypeOK ==
  /\ roles \in [Users -> Roles]
  /\ units \in [Units -> [kind : Kinds \cup {"none"}, parent : Units \cup {None}]]
  /\ members \in [Users -> [department : Units \cup {None}, position : Units \cup {None}]]
  /\ assets \subseteq Assets /\ tags \in [Tags -> Assets \cup {None}]
  /\ defects \in [Defects -> [status : {"none", "open", "in_progress", "closed"},
                              asset : Assets \cup {None}, tag : Tags \cup {None},
                              assignedTo : Users \cup {None}]]
  /\ watches \in [Configs -> [exists : BOOLEAN, asset : Assets \cup {None}]]

\* The organization is a forest: a parent is on record and may have children,
\* a factory is a root, and nobody is above himself (operations.ts:408-441).
Forest ==
  \A x \in Units : units[x].parent # None =>
    /\ units[x].kind \in {"department", "position"}
    /\ units[units[x].parent].kind \in {"factory", "department"}
    /\ x \notin Above(units[x].parent)

\* Who has a place in it has an account, and the place is of the right kind.
Placed ==
  \A u \in Users :
    /\ members[u] # NoMember => roles[u] # "none"
    /\ IsKind(members[u].department, "department")
    /\ IsKind(members[u].position, "position")

\* What is kept for history keeps what it is about: assets of tags, of defects
\* and of monitoring are on record, and the tag of a defect is on record and
\* of the defect's asset (inspection-assets.ts:161-200, 251-287).
Retained ==
  /\ \A t \in Tags : tags[t] \in assets \cup {None}
  /\ \A d \in Defects : /\ defects[d].asset \in assets \cup {None}
                        /\ defects[d].tag # None =>
                             tags[defects[d].tag] = defects[d].asset
                             /\ defects[d].asset # None
  /\ \A c \in Configs : watches[c].asset \in assets \cup {None}

\* The tables agree, in whatever order accounts, units and records come, go and
\* change kind (operations.ts:408-470, inspection-assets.ts, config.ts:80-90).
RecordsAgree == Forest /\ Placed /\ Retained
=============================================================================
