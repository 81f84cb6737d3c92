---------------------------- MODULE AlibabaIntake ----------------------------
(* alibaba_integration_service: an inquiry becomes a customer unless one is   *)
(* already there by e-mail, or by company and contact.  The look-ups and the  *)
(* insertion are steps of one request; nothing in the database keeps two      *)
(* equal customers apart.                                                     *)
EXTENDS Naturals, FiniteSetsExt

CONSTANTS
  Requests,
  Spellings,    \* names and addresses as they are typed, spaces stripped
  SqlLower,     \* what lower() of the database makes of each
  CaseFold,     \* what casefold() of Python makes of each
  None,
  MaxCustomers, \* bound: rows ever made
  OneAtATime    \* requests are served one after another

Ids == 1..MaxCustomers
InquiryType == [company : Spellings, contact : Spellings, email : Spellings \cup {None}]
Sources == {"Alibaba", "staff"}
Columns == [company : Spellings, contact : Spellings, email : Spellings \cup {None}, source : Sources]

IntakeAssumption ==
  /\ None \notin Spellings \cup Columns /\ MaxCustomers \in Nat /\ OneAtATime \in BOOLEAN
  /\ DOMAIN SqlLower = Spellings /\ DOMAIN CaseFold = Spellings

VARIABLES
  customer,   \* the rows by id, or None
  contacts,   \* the ids contact rows belong to
  last,       \* the last id given
  req         \* what each request does next, its inquiry and its answer

vars == <<customer, contacts, last, req>>

NoRequest == [job |-> "idle", inquiry |-> None, answer |-> None]

TypeOK ==
  /\ customer \in [Ids -> Columns \cup {None}]
  /\ contacts \subseteq {i \in Ids : customer[i] # None} /\ last \in 0..MaxCustomers
  /\ \A r \in Requests : req[r].answer \in Ids \cup {None}

Init ==
  /\ customer = [i \in Ids |-> None] /\ contacts = {} /\ last = 0
  /\ req = [r \in Requests |-> NoRequest]
-----------------------------------------------------------------------------
Rows == {i \in Ids : customer[i] # None}
Busy == {r \in Requests : req[r].job \notin {"idle", "done"}}
MayStart(r) == req[r].job = "idle" /\ (OneAtATime => Busy = {})

(* func.lower(func.trim(column)) == value.casefold() (ExactSame: unfolded).   *)
ExactSame(stored, given) == stored # None /\ stored = given
SqlSame(stored, given) == stored # None /\ SqlLower[stored] = CaseFold[given]

(* The two queries of _find_existing_customer, least id first.                *)
ByEmail(q) == {i \in Rows : q.email # None /\ SqlSame(customer[i].email, q.email)}
ByNames(q) == {i \in Rows : SqlSame(customer[i].company, q.company) /\ SqlSame(customer[i].contact, q.contact)}

Step(r, job, answer) == req' = [req EXCEPT ![r].job = job, ![r].answer = answer]

ReceiveInquiry(r) ==
  /\ MayStart(r)
  /\ \E q \in InquiryType : req' = [req EXCEPT ![r] = [job |-> "email", inquiry |-> q, answer |-> None]]
  /\ UNCHANGED <<customer, contacts, last>>

FindByEmail(r) ==
  /\ req[r].job = "email"
  /\ LET found == ByEmail(req[r].inquiry) IN
       IF found = {} THEN Step(r, "names", None) ELSE Step(r, "done", Min(found))
  /\ UNCHANGED <<customer, contacts, last>>

FindByNames(r) ==
  /\ req[r].job = "names"
  /\ LET found == ByNames(req[r].inquiry) IN
       IF found = {} THEN Step(r, "create", None) ELSE Step(r, "done", Min(found))
  /\ UNCHANGED <<customer, contacts, last>>

Row(q, source) == [company |-> q.company, contact |-> q.contact, email |-> q.email, source |-> source]

(* The customer and its first contact, in one transaction; the source is set  *)
(* whatever was submitted.                                                    *)
FirstContact(i) == {i}
CreateFromInquiry(r) ==
  /\ req[r].job = "create" /\ last < MaxCustomers
  /\ last' = last + 1
  /\ customer' = [customer EXCEPT ![last'] = Row(req[r].inquiry, "Alibaba")]
  /\ contacts' = contacts \cup FirstContact(last')
  /\ Step(r, "done", last')

(* Staff type customers in and delete those without contacts.                 *)
StaffCreate(r) ==
  /\ MayStart(r) /\ last < MaxCustomers
  /\ last' = last + 1
  /\ \E q \in InquiryType : customer' = [customer EXCEPT ![last'] = Row(q, "staff")]
  /\ Step(r, "done", None) /\ UNCHANGED contacts

Deletable == Rows \ contacts
StaffDelete(r) ==
  /\ MayStart(r)
  /\ \E i \in Deletable : customer' = [customer EXCEPT ![i] = None]
  /\ Step(r, "done", None) /\ UNCHANGED <<contacts, last>>

Next ==
  \E r \in Requests :
    \/ ReceiveInquiry(r) \/ FindByEmail(r) \/ FindByNames(r) \/ CreateFromInquiry(r)
    \/ StaffCreate(r) \/ StaffDelete(r)

Spec == Init /\ [][Next]_vars
-----------------------------------------------------------------------------
(* "Existing customers are returned instead of duplicated when a              *)
(* case-insensitive email match or company-and-contact match is found": when  *)
(* an inquiry makes a customer no other matches it, by either rule.           *)
SameText(a, b) == a # None /\ b # None /\ CaseFold[a] = CaseFold[b]
Matches(row, q) ==
  SameText(row.email, q.email) \/ (SameText(row.company, q.company) /\ SameText(row.contact, q.contact))
OneOfAKind ==
  \A i \in Ids : customer[i] = None /\ customer'[i] # None /\ customer'[i].source = "Alibaba" =>
    \A j \in Rows : ~Matches(customer[j], customer'[i])

(* A customer an inquiry made stays: staff delete only customers without      *)
(* contacts, and the inquiry gave it one in the same transaction.             *)
IntakeStays == \A i \in Rows : customer[i].source = "Alibaba" => customer'[i] # None
=============================================================================
