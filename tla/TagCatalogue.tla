----------------------------- MODULE TagCatalogue -----------------------------
(* customer_service: the tags of customers (and, with the same steps, their   *)
(* categories): made, renamed, deactivated, assigned and removed.  A name is  *)
(* looked up without regard to case before the write; the database itself     *)
(* only keeps equal spellings apart.                                          *)
EXTENDS Naturals, FiniteSets

CONSTANTS
  Requests, Customers,
  Spellings,   \* names as typed, spaces stripped
  Lower,       \* the lower case of each
  None,
  MaxTags,     \* bound: tags ever made
  Categories,  \* the rows are categories: a taken name is refused, never answered
  OneAtATime   \* requests are served one after another

TagRows == [name : Spellings, active : BOOLEAN]

TagAssumption ==
  /\ None \notin Spellings \cup TagRows /\ MaxTags \in Nat /\ None \notin 1..MaxTags
  /\ DOMAIN Lower = Spellings
  /\ Categories \in BOOLEAN /\ OneAtATime \in BOOLEAN

VARIABLES
  tag,     \* the rows by id: name and whether it is active, or None
  links,   \* customer_tags
  req      \* what each request does next, the name it writes, the row and answer

vars == <<tag, links, req>>

Ids == 1..MaxTags
NoRequest == [job |-> "idle", name |-> None, on |-> None]

TypeOK ==
  /\ \A i \in Ids : tag[i] # None => tag[i] \in TagRows
  /\ links \subseteq Customers \X {i \in Ids : tag[i] # None}
  /\ \A r \in Requests : req[r].on \in Ids \cup {None}

Init == tag = [i \in Ids |-> None] /\ links = {} /\ req = [r \in Requests |-> NoRequest]
-----------------------------------------------------------------------------
Rows == {i \in Ids : tag[i] # None}
Busy == {r \in Requests : req[r].job \notin {"idle", "done", "refused"}}
MayStart(r) == req[r].job = "idle" /\ (OneAtATime => Busy = {})
Step(r, job, name, on) == req' = [req EXCEPT ![r] = [job |-> job, name |-> name, on |-> on]]

(* The look-up ignores case (SameSpelling: it does not).                      *)
SameSpelling(a, b) == a = b
SameName(a, b) == Lower[a] = Lower[b]
Taken(name, others) == {i \in others : SameName(tag[i].name, name)}

(* A taken name: an existing tag is the answer, deactivated or not; a         *)
(* category is refused.                                                       *)
CreateTag(r) ==
  /\ MayStart(r)
  /\ \E name \in Spellings :
       IF Taken(name, Rows) = {} THEN Step(r, "create", name, None)
       ELSE \E i \in Taken(name, Rows) :
              IF Categories THEN Step(r, "refused", name, None) ELSE Step(r, "done", name, i)
  /\ UNCHANGED <<tag, links>>

UpdateTag(r) ==
  /\ MayStart(r)
  /\ \E i \in Rows, name \in Spellings :
       IF Taken(name, Rows \ {i}) = {} THEN Step(r, "rename", name, i) ELSE Step(r, "refused", name, None)
  /\ UNCHANGED <<tag, links>>

(* The unique index compares spellings; a commit it refuses fails the request.*)
UniqueIndex(name, others) == \A i \in others : tag[i].name # name

CommitTag(r) ==
  /\ req[r].job \in {"create", "rename"}
  /\ LET name == req[r].name  free == Ids \ Rows  i == CHOOSE k \in free : \A j \in free : k <= j IN
     \/ /\ req[r].job = "create" /\ free # {} /\ UniqueIndex(name, Rows)
        /\ tag' = [tag EXCEPT ![i] = [name |-> name, active |-> TRUE]] /\ Step(r, "done", name, i)
     \/ /\ req[r].job = "rename" /\ UniqueIndex(name, Rows \ {req[r].on})
        /\ tag' = [tag EXCEPT ![req[r].on].name = name] /\ Step(r, "done", name, req[r].on)
     \/ /\ ~UniqueIndex(name, Rows \ {req[r].on})
        /\ Step(r, "refused", name, None) /\ UNCHANGED tag
  /\ UNCHANGED links

(* DELETE /tags/{id}: row and links stay.                                     *)
Off(row) == [row EXCEPT !.active = FALSE]
KeepLinks(i) == links
DeactivateTag(r) ==
  /\ MayStart(r)
  /\ \E i \in Rows : tag' = [tag EXCEPT ![i] = Off(@)] /\ links' = KeepLinks(i) /\ Step(r, "done", None, i)

(* Assigning reads the links first; a link made meanwhile is refused by the   *)
(* key.  A deactivated tag may be assigned.                                   *)
AssignTag(r) ==
  /\ MayStart(r) /\ ~Categories
  /\ \E c \in Customers, i \in Rows : links' = links \cup {<<c, i>>} /\ Step(r, "done", None, i)
  /\ UNCHANGED tag

RemoveTag(r) ==
  /\ MayStart(r) /\ ~Categories
  /\ \E l \in links : links' = links \ {l} /\ Step(r, "removed", None, l[2])
  /\ UNCHANGED tag

Next == \E r \in Requests :
  \/ CreateTag(r) \/ UpdateTag(r) \/ CommitTag(r) \/ DeactivateTag(r) \/ AssignTag(r) \/ RemoveTag(r)

Spec == Init /\ [][Next]_vars
-----------------------------------------------------------------------------
(* Two tags never carry the same name in two spellings ("A tag with this name *)
(* already exists.").                                                         *)
NamesDistinct == \A i, j \in Rows : i # j => Lower[tag[i].name] # Lower[tag[j].name]

(* What survives overlapping requests: no two carry the same spelling.        *)
SpellingsDistinct == \A i, j \in Rows : i # j => tag[i].name # tag[j].name

(* "Tag deletion is a soft deactivation so existing customer relationships    *)
(* remain intact": a link goes only when somebody removes it.                 *)
LinksRemain == \A l \in links : l \in links' \/ \E r \in Requests : req[r].job # "removed" /\ req'[r].job = "removed"
=============================================================================
