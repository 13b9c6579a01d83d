----------------------------- MODULE Dimensions -----------------------------
(***************************************************************************)
(* The regions, roles, groups and departments of an organisation, the      *)
(* number each of them is given (repositories/dimension.py), what a member *)
(* is assigned, and the masks a folder is given from a configuration that  *)
(* names them (services/permission_config.py, services/search_access.py).  *)
(* Two administrators create dimensions at the same time: READ COMMITTED   *)
(* transactions, of which only the row with the highest number is locked.  *)
(***************************************************************************)
EXTENDS TLC, Naturals, FiniteSets

(***************************************************************************)
(* Access masks: five numbers packed into one integer (packages/           *)
(* access_mask).  A document's field that holds the largest number of the  *)
(* field admits every member; the organisation has no such wildcard.       *)
(***************************************************************************)

CONSTANT Bits       \* the width of each field, in bits

Dimensions == {"region", "role", "group", "dept"}
Fields == {"org"} \cup Dimensions

MAX(f) == 2^Bits[f] - 1

SHIFT == [dept |-> 0, group |-> Bits.dept, role |-> Bits.dept + Bits.group,
          region |-> Bits.dept + Bits.group + Bits.role,
          org |-> Bits.dept + Bits.group + Bits.role + Bits.region]

encode(v) ==
  v.org * 2^SHIFT.org + v.region * 2^SHIFT.region + v.role * 2^SHIFT.role + v.group * 2^SHIFT.group
    + v.dept * 2^SHIFT.dept

decode(m) == [f \in Fields |-> (m \div 2^SHIFT[f]) % (MAX(f) + 1)]

FieldMatches(u, d, wildcard) == d = wildcard \/ u = d

matches(user, doc) ==
  LET u == decode(user)
      d == decode(doc)
  IN u.org = d.org /\ \A f \in Dimensions : FieldMatches(u[f], d[f], MAX(f))

expand_wildcards(user) ==
  LET u == decode(user)
  IN {encode([org |-> u.org, region |-> r, role |-> o, group |-> g, dept |-> d]) :
        r \in {u.region, MAX("region")}, o \in {u.role, MAX("role")}, g \in {u.group, MAX("group")},
        d \in {u.dept, MAX("dept")}}

expand_member_masks(masks) == UNION {expand_wildcards(m) : m \in masks}

member_masks(org, own) ==
  {encode([org |-> org, region |-> r, role |-> o, group |-> g, dept |-> d]) :
     r \in own.region \cup {MAX("region")}, o \in own.role \cup {MAX("role")},
     g \in own.group \cup {MAX("group")}, d \in own.dept \cup {MAX("dept")}}

----------------------------------------------------------------------------

CONSTANTS
  Admins,       \* administrators' requests
  Ids,          \* dimension rows
  Kind,         \* the dimension of a row
  Names,        \* names, unique within a dimension
  OrgNumber,    \* the organisation's own number
  MaxKeys       \* MAX_ACCESS_KEYS

VARIABLES
  rows,     \* id of a row -> its name and number
  req,      \* request -> what it is creating
  lock,     \* request -> the row it holds FOR UPDATE
  member,   \* the ids a member is assigned
  config,   \* the folder's configuration: its entries, each dimension -> name
  masks,    \* the masks stored with it
  meant,    \* history: the rows its entries named when the masks were computed
  raced,    \* history: a dimension was created or deleted while another was created
  freed     \* history: deleted rows and their numbers

vars == <<rows, req, lock, member, config, masks, meant, raced, freed>>

None == "none"
UNRESTRICTED_MASK == 0
Live == DOMAIN rows
OfKind(k) == {i \in Live : Kind[i] = k}
Idle == [pc |-> "idle"]

Init ==
  /\ rows = << >> /\ req = [a \in Admins |-> Idle] /\ lock = [a \in Admins |-> None]
  /\ member = {} /\ config = {} /\ masks = {} /\ meant = {}
  /\ raced = FALSE /\ freed = {}

----------------------------------------------------------------------------
(* Creating: the highest number is read with a lock on its row, and the    *)
(* next one is given.                                                      *)

Creating == {a \in Admins : req[a].pc # "idle"}

\* The statement takes its snapshot.
Create(a, i, n) ==
  /\ req[a].pc = "idle" /\ i \notin Live \cup {p[1] : p \in freed} /\ \A b \in Creating : req[b].id # i
  /\ req' = [req EXCEPT ![a] = [pc |-> "lock", id |-> i, name |-> n,
                               seen |-> {<<j, rows[j].num>> : j \in OfKind(Kind[i])}]]
  /\ raced' = (raced \/ Creating # {})
  /\ UNCHANGED <<rows, lock, member, config, masks, meant, freed>>

Highest(k) == MAX(k) - 1

\* The rows of the snapshot are locked from the highest down until one is there.
LastNum(a) ==
  LET r == req[a]
      still == {p \in r.seen : p[1] \in Live}
  IN IF still = {} THEN <<None, 0>> ELSE CHOOSE p \in still : \A q \in still : q[2] <= p[2]

NextNumber(a) ==
  /\ req[a].pc = "lock"
  /\ LET last == LastNum(a)
     IN /\ \A b \in Admins \ {a} : lock[b] = None \/ lock[b] # last[1]
        /\ IF last[2] + 1 > Highest(Kind[req[a].id])
             THEN req' = [req EXCEPT ![a] = Idle] /\ UNCHANGED lock         \* DimensionLimitReached
             ELSE /\ req' = [req EXCEPT ![a] = [pc |-> "commit", id |-> req[a].id, name |-> req[a].name,
                                               num |-> last[2] + 1]]
                  /\ lock' = [lock EXCEPT ![a] = last[1]]
  /\ UNCHANGED <<rows, member, config, masks, meant, raced, freed>>

\* The name is unique within the dimension: the second request fails.
Commit(a) ==
  /\ req[a].pc = "commit"
  /\ LET r == req[a]
     IN rows' = IF \E j \in OfKind(Kind[r.id]) : rows[j].name = r.name THEN rows
                ELSE rows @@ (r.id :> [name |-> r.name, num |-> r.num])
  /\ req' = [req EXCEPT ![a] = Idle] /\ lock' = [lock EXCEPT ![a] = None]
  /\ UNCHANGED <<member, config, masks, meant, raced, freed>>

UpdateDimension(i, n) ==
  /\ i \in Live /\ \A a \in Admins : lock[a] # i
  /\ \A j \in OfKind(Kind[i]) \ {i} : rows[j].name # n
  /\ rows' = [rows EXCEPT ![i].name = n]
  /\ UNCHANGED <<req, lock, member, config, masks, meant, raced, freed>>

\* Memberships lose the row (the keys that hold it: module ApiKeys); masks stay.
DeleteDimension(i) ==
  /\ i \in Live /\ \A a \in Admins : lock[a] # i
  /\ rows' = [j \in Live \ {i} |-> rows[j]]
  /\ member' = member \ {i}
  /\ freed' = freed \cup {<<i, rows[i].num>>}
  /\ raced' = (raced \/ Creating # {})
  /\ UNCHANGED <<req, lock, config, masks, meant>>

----------------------------------------------------------------------------
(* The masks of a configuration and of a member.                           *)

ResolveDimensionNumber(k, n) == {rows[i].num : i \in {j \in OfKind(k) : rows[j].name = n}}

\* An entry that names nothing that exists is left out.
Resolvable(entry) == \A k \in DOMAIN entry : ResolveDimensionNumber(k, entry[k]) # {}

EntryMask(entry) ==
  encode([f \in Fields |->
            IF f = "org" THEN OrgNumber
            ELSE IF f \in DOMAIN entry THEN CHOOSE v \in ResolveDimensionNumber(f, entry[f]) : TRUE
            ELSE MAX(f)])

permission_config_to_masks(c) == {EntryMask(e) : e \in {x \in c : Resolvable(x)}}

\* compute_folder_masks, called whenever a configuration is saved.
Configure(c) ==
  /\ config' = c /\ masks' = permission_config_to_masks(c)
  /\ meant' = {{i \in Live : Kind[i] \in DOMAIN e /\ rows[i].name = e[Kind[i]]} : e \in {x \in c : Resolvable(x)}}
  /\ UNCHANGED <<rows, req, lock, member, raced, freed>>

\* Saving the contributors' configuration resolves the stored one of the viewers again.
SaveContributors == config # {} /\ Configure(config)

Assign(ids) ==
  /\ ids \subseteq Live
  /\ member' = ids
  /\ UNCHANGED <<rows, req, lock, config, masks, meant, raced, freed>>

Own(k) == {rows[i].num : i \in {j \in member : Kind[j] = k}}
OrZero(s) == IF s = {} THEN {0} ELSE s

member_base_masks ==
  {encode([org |-> OrgNumber, region |-> r, role |-> o, group |-> g, dept |-> d]) :
     r \in OrZero(Own("region")), o \in OrZero(Own("role")), g \in OrZero(Own("group")), d \in OrZero(Own("dept"))}

calculate_masks_from_assignments == member_masks(OrgNumber, [k \in Dimensions |-> OrZero(Own(k))])

TooManyAccessMasks(own) == Cardinality(own) > MaxKeys

\* Without the mark of a document that nobody restricted.
WithOwn(s) == s

with_unrestricted(s) == {UNRESTRICTED_MASK} \cup s

\* What a request for a person searches with; an administrator has no filter.
Unfiltered == [filter |-> FALSE, keys |-> {}]
Refused == [filter |-> TRUE, keys |-> {}]
Filter(own) == IF TooManyAccessMasks(own) THEN Refused ELSE [filter |-> TRUE, keys |-> with_unrestricted(own)]

resolve_user_access_keys(role, own) == IF role # "plain" THEN Unfiltered ELSE Filter(own)

\* The same for an agent that acts for the person.
resolve_profile_access_keys(role, own) == IF role \in {"site", "admin"} THEN Unfiltered ELSE Filter(own)

\* The index records a document that nobody restricted under the mark.
Stored == IF masks = {} THEN {UNRESTRICTED_MASK} ELSE masks
Retrieved(k) == ~k.filter \/ k.keys \cap Stored # {}

\* The folder list of the user interface.
FolderVisible(role, own) ==
  \/ role # "plain"
  \/ ~TooManyAccessMasks(own) /\ (masks = {} \/ own \cap masks # {})

Entries == UNION {[ks -> Names] : ks \in {{"region"}, {"region", "dept"}}}

Next ==
  \/ \E a \in Admins : (\E i \in Ids, n \in Names : Create(a, i, n)) \/ NextNumber(a) \/ Commit(a)
  \/ \E i \in Ids : (\E n \in Names : UpdateDimension(i, n)) \/ DeleteDimension(i)
  \/ \E e \in Entries : Configure({e})
  \/ Configure({})
  \/ SaveContributors
  \/ \E ids \in SUBSET Live : Assign(ids)

Spec == Init /\ [][Next]_vars

----------------------------------------------------------------------------
TypeOK ==
  /\ Live \subseteq Ids /\ \A i \in Live : rows[i] \in [name : Names, num : Nat]
  /\ \A a \in Admins : req[a].pc \in {"idle", "lock", "commit"} /\ lock[a] \in Ids \cup {None}
  /\ member \subseteq Live /\ \A i, j \in Live : Kind[i] = Kind[j] /\ rows[i].name = rows[j].name => i = j
  /\ masks \subseteq Nat

\* Packing loses nothing, the set of masks a member is given by dimension is the set of the
\* expansions of its base masks, and a document's mask is in it exactly when it matches
\* (member_masks, expand_wildcards, matches).
ExpansionExact ==
  /\ \A i \in Live : LET v == [f \in Fields |-> IF f = Kind[i] THEN rows[i].num ELSE MAX(f)] IN decode(encode(v)) = v
  /\ LET base == member_base_masks
         own == calculate_masks_from_assignments
     IN /\ expand_member_masks(base) = own
        /\ \A m \in masks : m \in own <=> \E b \in base : matches(b, m)

\* No row is ever given the wildcard's number, or the number that stands for "unassigned"
\* (DimensionRepository.create).
NoWildcard == \A i \in Live : rows[i].num \in 1 .. MAX(Kind[i]) - 1

\* A restricted folder is seen by exactly the members that hold every dimension one entry of
\* its configuration names, unless a number has stood for two rows; in the list and in the
\* search, for a person and for an agent that acts for it.
Clear == ~raced /\ \A i \in Live, p \in freed : Kind[i] = Kind[p[1]] => rows[i].num # p[2]
GrantsExact ==
  LET own == calculate_masks_from_assignments IN
  /\ Clear /\ ~TooManyAccessMasks(own) =>
       (FolderVisible("plain", own) <=> meant = {} \/ \E e \in meant : e \subseteq member)
  /\ \A role \in {"plain", "admin", "site"} :
       \A k \in {resolve_user_access_keys(role, own), resolve_profile_access_keys(role, own)} :
       Retrieved(k) <=> FolderVisible(role, own)

\* Two dimensions never have one number: "Row-level lock prevents the select-max/insert race
\* that would otherwise let two concurrent creates pick the same value" (create).
NumbersDistinct == \A i, j \in Live : i # j /\ Kind[i] = Kind[j] => rows[i].num # rows[j].num
=============================================================================
