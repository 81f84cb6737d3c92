---------------------------- MODULE ArchiveImport ---------------------------
(* scripts/import_customer_archive.py: a workbook of customers is reduced to  *)
(* one row per exact identity and written in one transaction, a savepoint per *)
(* row.  A name stands for company, contact and country together.             *)
EXTENDS Naturals, Sequences

CONSTANTS
  Emails, Phones, Names,
  None,
  AcquiredDates, \* acquisition dates, 0 when the cell is empty
  Sheets,        \* workbooks an import may be run on: sequences of rows
  CrmCustomers,  \* customers the CRM may already have: sequences of identities
  Edits,         \* between imports, the workbook is edited: "none", "append" rows, "any"
  MaxImports     \* bound on the imports

VARIABLES
  sheet,     \* the workbook
  groups,    \* the root of each row's duplicate group
  customers, \* committed customers by number: the key and identity of each
  contacts,  \* committed contacts: customer and name
  work,      \* the transaction: todo rows and the customers and contacts it sees
  imports    \* imports completed
vars == <<sheet, groups, customers, contacts, work, imports>>

Rows == [email : Emails \cup {None}, phone : Phones \cup {None}, name : Names \cup {None},
         acquired : AcquiredDates, bad : BOOLEAN]
KeysOfIdentity == {"email", "phone", "name"}
Identity(r) == [k \in KeysOfIdentity |-> r[k]]
Identities == [email : Emails \cup {None}, phone : Phones \cup {None}, name : Names \cup {None}]

ImportAssumption ==
  /\ Sheets \subseteq Seq(Rows) /\ AcquiredDates \subseteq Nat
  /\ CrmCustomers \subseteq Seq(Identities) /\ MaxImports \in Nat

NoWork == [open |-> FALSE, todo |-> {}, customers |-> <<>>, contacts |-> {}]

TypeOK ==
  /\ sheet \in Sheets
  /\ groups \in [DOMAIN sheet -> DOMAIN sheet] \cup {<<>>}
  /\ \A id \in DOMAIN customers : customers[id] \in [key : Nat, id : Identities]
  /\ contacts \subseteq (DOMAIN customers) \X Names
  /\ work.open \in BOOLEAN /\ work.todo \subseteq DOMAIN sheet
  /\ imports \in 0..MaxImports

Init ==
  /\ sheet \in Sheets
  /\ groups = <<>>
  /\ \E s \in CrmCustomers : customers = [i \in 1..Len(s) |-> [key |-> 0, id |-> s[i]]]
  /\ contacts = {} /\ work = NoWork /\ imports = 0
-----------------------------------------------------------------------------
Shares(i, j) == \E k \in KeysOfIdentity : sheet[i][k] # None /\ sheet[i][k] = sheet[j][k]

(* The first row seen with one of row i's identifiers.                        *)
SeenWith(i, k) == {j \in 1..(i - 1) : sheet[i][k] # None /\ sheet[j][k] = sheet[i][k]}
First(s) == CHOOSE i \in s : \A j \in s : i <= j

(* UnionFind.union: the older root goes under the row's.                      *)
Union(roots, i, j) == [x \in DOMAIN roots |-> IF roots[x] = roots[j] THEN roots[i] ELSE roots[x]]

JoinOn(roots, i, k) == IF SeenWith(i, k) = {} THEN roots ELSE Union(roots, i, First(SeenWith(i, k)))

(* One pass over the rows, each by its e-mail, its phone and its name.        *)
Grouped ==
  LET after[i \in 0..Len(sheet)] ==
        IF i = 0 THEN [x \in DOMAIN sheet |-> x]
        ELSE JoinOn(JoinOn(JoinOn(after[i - 1], i, "email"), i, "phone"), i, "name")
  IN after[Len(sheet)]

(* Of a group the row acquired last, the lower one when equal (AllRows: no    *)
(* reduction).                                                                *)
AllRows(roots) == DOMAIN sheet
Newer(i, j) == sheet[i].acquired > sheet[j].acquired \/ (sheet[i].acquired = sheet[j].acquired /\ i > j)
Winners(roots) == {i \in DOMAIN sheet : \A j \in DOMAIN sheet : roots[i] = roots[j] /\ i # j => Newer(i, j)}

StartImport ==
  /\ ~work.open /\ imports < MaxImports
  /\ groups' = Grouped
  /\ work' = [open |-> TRUE, todo |-> Winners(Grouped), customers |-> customers, contacts |-> contacts]
  /\ UNCHANGED <<sheet, customers, contacts, imports>>

(* matching_customer: by the row's key, else by e-mail, else by phone, else   *)
(* by name; whichever the database returns first.  (NoKey: the key is lost.)  *)
With(k, v) == {c \in DOMAIN work.customers : v # None /\ work.customers[c].id[k] = v}
NoKey(i) == {}
ByKey(i) == {c \in DOMAIN work.customers : work.customers[c].key = i}
Matching(i) ==
  LET r == sheet[i] IN
  CASE ByKey(i) # {} -> ByKey(i)
    [] ByKey(i) = {} /\ With("email", r.email) # {} -> With("email", r.email)
    [] ByKey(i) = {} /\ With("email", r.email) = {} /\ With("phone", r.phone) # {} -> With("phone", r.phone)
    [] OTHER -> With("name", r.name)

(* The contact of that name.                                                  *)
Named(c, name) == IF name = None THEN {} ELSE {<<c, name>>}

(* Every column of the matched customer is overwritten, or a new one is made. *)
Write(i, c) ==
  [work EXCEPT !.todo = @ \ {i},
               !.customers = [x \in DOMAIN @ \cup {c} |-> IF x = c THEN [key |-> i, id |-> Identity(sheet[i])] ELSE @[x]],
               !.contacts = @ \cup Named(c, sheet[i].name)]

ImportRow ==
  /\ work.open /\ work.todo # {}
  /\ LET i == First(work.todo) IN
     /\ ~sheet[i].bad
     /\ \E c \in IF Matching(i) = {} THEN {Len(work.customers) + 1} ELSE Matching(i) : work' = Write(i, c)
  /\ UNCHANGED <<sheet, groups, customers, contacts, imports>>

(* A row the database refuses is undone to its savepoint and reported.        *)
SkipRow ==
  /\ work.open /\ work.todo # {} /\ sheet[First(work.todo)].bad
  /\ work' = [work EXCEPT !.todo = @ \ {First(work.todo)}]
  /\ UNCHANGED <<sheet, groups, customers, contacts, imports>>

Commit ==
  /\ work.open /\ work.todo = {}
  /\ customers' = work.customers /\ contacts' = work.contacts
  /\ work' = NoWork /\ imports' = imports + 1
  /\ UNCHANGED <<sheet, groups>>

(* A dry run, or the end of the process.                                      *)
Rollback == work.open /\ work' = NoWork /\ UNCHANGED <<sheet, groups, customers, contacts, imports>>

EditSheet ==
  /\ Edits # "none" /\ ~work.open /\ imports \in 1..(MaxImports - 1)
  /\ sheet' \in Sheets /\ (Edits = "append" => \A i \in DOMAIN sheet : i \in DOMAIN sheet' /\ sheet'[i] = sheet[i])
  /\ groups' = <<>>
  /\ UNCHANGED <<customers, contacts, work, imports>>

Finished == ~work.open /\ imports = MaxImports /\ UNCHANGED vars

Next == StartImport \/ ImportRow \/ SkipRow \/ Commit \/ Rollback \/ EditSheet \/ Finished

Spec == Init /\ [][Next]_vars
-----------------------------------------------------------------------------
(* Duplicate groups are exactly the rows linked by chains of shared           *)
(* identifiers, although the pass only looks back at the first row with each. *)
Linked(i, j) ==
  \E n \in 0..Len(sheet) : \E p \in [0..n -> DOMAIN sheet] :
    p[0] = i /\ p[n] = j /\ \A m \in 1..n : Shares(p[m - 1], p[m])
GroupsAreExact ==
  groups # <<>> => \A i, j \in DOMAIN sheet : (groups[i] = groups[j]) <=> (i = j \/ Linked(i, j))

(* A first import into an empty CRM makes no two customers that share an      *)
(* identifier, whichever rows are refused.                                    *)
NoTwins ==
  imports = 1 /\ ~work.open => \A c, d \in DOMAIN customers :
    c # d => \A k \in KeysOfIdentity : customers[c].id[k] = None \/ customers[c].id[k] # customers[d].id[k]

(* "The importer is deliberately idempotent": importing the same workbook     *)
(* again, after a complete import or one that rolled back, changes nothing.   *)
NothingNew == imports >= 1 => customers' = customers /\ contacts' = contacts

(* "It keeps existing customer IDs" and "never performs a fuzzy merge": a row  *)
(* overwrites only a customer with whom it shares an exact identifier, the    *)
(* one the saved row key names included.                                      *)
KeepsPerson ==
  \A c \in DOMAIN work.customers : work'.open /\ work'.customers[c].id # work.customers[c].id
    => \E k \in KeysOfIdentity : /\ work.customers[c].id[k] # None
                                /\ work'.customers[c].id[k] = work.customers[c].id[k]
SamePerson == [][KeepsPerson]_vars
=============================================================================
