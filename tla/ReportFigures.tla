---------------------------- MODULE ReportFigures ---------------------------
(* The figures of the dashboard, the business analysis, the profit page and   *)
(* the sales target, each computed from the records anew, while the records   *)
(* change.  The writes stand for the requests of the other modules; a day is  *)
(* a Shanghai business day.                                                   *)
EXTENDS Integers, Sequences, FiniteSets, FiniteSetsExt, Functions

CONSTANTS
  Customers, Deals, Quotes, Goods, Orders,
  CustomerOf,   \* the customer of each deal and of each quotation, fixed when written
  MaxNotes,     \* bound on follow-up records; a record's number is its id
  MaxVersions,  \* bound on the versions of a quotation
  Days,         \* bound on the days
  Amounts,      \* amounts of one order
  Money,        \* payments, costs and freights of one order
  Currencies, Sellers, None

FiguresAssumption ==
  /\ MaxNotes \in Nat /\ MaxVersions \in Nat \ {0} /\ Days \in Nat \ {0} /\ Amounts \cup Money \subseteq Nat
  /\ IsFiniteSet(Customers) /\ IsFiniteSet(Deals) /\ IsFiniteSet(Quotes)
  /\ IsFiniteSet(Goods) /\ IsFiniteSet(Orders) /\ IsFiniteSet(Sellers)
  /\ CustomerOf \in [Deals \cup Quotes -> Customers]
  /\ None \notin Nat /\ "Admin" \notin Sellers \cup {None}

VARIABLES
  day,
  owner,     \* the owner of each deal: a seller, or None for anybody else
  stage,     \* deal_stage of each deal: open, Won, Lost, or gone when deleted
  wins,      \* days of its history records into Won
  quote,     \* [Quotes -> None or its day and versions]
  order,     \* [Orders -> None or the order]
  notes,     \* follow-up records
  lastNote,  \* highest id given
  next       \* customers.next_followup_date, kept by the follow-up service

vars == <<day, owner, stage, wins, quote, order, notes, lastNote, next>>

DayOrNone == 0..(Days + 1) \cup {None}
Version == [lines : SUBSET Goods, shipping : 0..1, currency : Currencies]
Order == [customer : Customers, deal : Deals \cup {None}, on : 1..Days, amount : Amounts, currency : Currencies,
          received : Money \cup {None}, purchase : Money \cup {None}, freight : Money \cup {None}]
Note == [id : 1..MaxNotes, customer : Customers, date : 0..Days, next : DayOrNone]

TypeOK ==
  /\ day \in 1..Days /\ owner \in [Deals -> Sellers \cup {None}]
  /\ stage \in [Deals -> {"open", "Won", "Lost", "gone"}] /\ wins \in [Deals -> SUBSET (1..Days)]
  /\ \A q \in Quotes : quote[q] = None \/
       /\ quote[q].on \in 1..Days
       /\ Len(quote[q].versions) \in 1..MaxVersions /\ \A i \in 1..Len(quote[q].versions) : quote[q].versions[i] \in Version
  /\ \A o \in Orders : order[o] = None \/
       /\ order[o] \in Order
       /\ order[o].deal # None => stage[order[o].deal] # "gone" /\ CustomerOf[order[o].deal] = order[o].customer
  /\ notes \subseteq Note /\ lastNote \in 0..MaxNotes /\ next \in [Customers -> DayOrNone]

Init ==
  /\ day = 1 /\ owner \in [Deals -> Sellers \cup {None}]
  /\ stage = [d \in Deals |-> "open"] /\ wins = [d \in Deals |-> {}]
  /\ quote = [q \in Quotes |-> None] /\ order = [o \in Orders |-> None]
  /\ notes = {} /\ lastNote = 0 /\ next = [c \in Customers |-> None]
-----------------------------------------------------------------------------
(* Writes.                                                                    *)
MoveDeal == \E d \in Deals, s \in {"open", "Won", "Lost"} :
  /\ stage[d] \notin {s, "gone"} /\ stage' = [stage EXCEPT ![d] = s]
  /\ wins' = IF s = "Won" THEN [wins EXCEPT ![d] = @ \cup {day}] ELSE wins
  /\ UNCHANGED <<day, owner, quote, order, notes, lastNote, next>>

GiveDeal == \E d \in Deals, s \in Sellers \cup {None} :
  /\ stage[d] # "gone" /\ owner' = [owner EXCEPT ![d] = s]
  /\ UNCHANGED <<day, stage, wins, quote, order, notes, lastNote, next>>

(* Refused for a deal with an order; the histories go with it.                *)
DropDeal == \E d \in Deals :
  /\ stage[d] # "gone" /\ \A o \in Orders : order[o] # None => order[o].deal # d
  /\ stage' = [stage EXCEPT ![d] = "gone"] /\ wins' = [wins EXCEPT ![d] = {}]
  /\ UNCHANGED <<day, owner, quote, order, notes, lastNote, next>>

WriteQuote == \E q \in Quotes, v \in Version :
  /\ \/ /\ quote[q] = None
        /\ quote' = [quote EXCEPT ![q] = [on |-> day, versions |-> <<v>>]]
     \/ /\ quote[q] # None /\ Len(quote[q].versions) < MaxVersions
        /\ quote' = [quote EXCEPT ![q].versions = Append(@, v)]
     \/ quote' = [quote EXCEPT ![q] = None]
  /\ UNCHANGED <<day, owner, stage, wins, order, notes, lastNote, next>>

(* A deal is of the order's customer and has at most one order; a change of   *)
(* an order keeps its customer and deal.                                      *)
WriteOrder == \E o \in Orders, x \in Order :
  /\ IF order[o] # None THEN x.deal = order[o].deal /\ x.customer = order[o].customer
     ELSE x.deal # None => /\ stage[x.deal] # "gone" /\ CustomerOf[x.deal] = x.customer
                           /\ \A p \in Orders : order[p] # None => order[p].deal # x.deal
  /\ order' = [order EXCEPT ![o] = x]
  /\ UNCHANGED <<day, owner, stage, wins, quote, notes, lastNote, next>>

DropOrder == \E o \in Orders :
  /\ order[o] # None /\ order' = [order EXCEPT ![o] = None]
  /\ UNCHANGED <<day, owner, stage, wins, quote, notes, lastNote, next>>

(* _refresh_customer_reminder: the latest by business date, then by age.      *)
NoNote == [date |-> -1, id |-> 0, next |-> None]
Later(a, b) == a.date > b.date \/ (a.date = b.date /\ a.id > b.id)
LatestByDate(rows) == IF rows = {} THEN NoNote ELSE CHOOSE a \in rows : \A b \in rows \ {a} : Later(a, b)
Of(rows, c) == {n \in rows : n.customer = c}
Refresh(c) == next' = [next EXCEPT ![c] = LatestByDate(Of(notes', c)).next]

AddNote == \E c \in Customers, d \in 0..day, n \in {day, day + 1, None} :
  /\ lastNote < MaxNotes /\ lastNote' = lastNote + 1
  /\ notes' = notes \cup {[id |-> lastNote + 1, customer |-> c, date |-> d, next |-> n]}
  /\ Refresh(c) /\ UNCHANGED <<day, owner, stage, wins, quote, order>>

EraseNote == \E n \in notes :
  /\ notes' = notes \ {n}
  /\ Refresh(n.customer) /\ UNCHANGED <<day, owner, stage, wins, quote, order, lastNote>>

Midnight == day < Days /\ day' = day + 1 /\ UNCHANGED <<owner, stage, wins, quote, order, notes, lastNote, next>>

Next == MoveDeal \/ GiveDeal \/ DropDeal \/ WriteQuote \/ WriteOrder \/ DropOrder \/ AddNote \/ EraseNote \/ Midnight
Spec == Init /\ [][Next]_vars
-----------------------------------------------------------------------------
Between(n, from, to) == from <= n /\ n <= to

(* Most queries join the opportunities of a row's customer: the row comes     *)
(* once for each of them, and once if there is none.                          *)
DealsOf(c) == {d \in Deals : CustomerOf[d] = c /\ stage[d] # "gone"}
Copies(c) == IF DealsOf(c) = {} THEN 1 ELSE Cardinality(DealsOf(c))

(* Profit: an order is accounted when all three inputs are there.             *)
Accounted(o) == order[o].received # None /\ order[o].purchase # None /\ order[o].freight # None
OrdersIn(from, to) == {o \in Orders : order[o] # None /\ Between(order[o].on, from, to)}
EnteredIn(from, to) == {o \in OrdersIn(from, to) : Accounted(o) /\ order[o].received > 0}
AccountedIn(from, to) == {o \in OrdersIn(from, to) : Accounted(o)}
Received(rows) == SumFunction([o \in rows |-> order[o].received])
Purchase(rows) == SumFunction([o \in rows |-> order[o].purchase])
Freight(rows) == SumFunction([o \in rows |-> order[o].freight])
Profit(rows) == SumFunction([o \in rows |-> order[o].received - order[o].purchase - order[o].freight])

(* The profit page adds up profits of orders; the analysis page subtracts     *)
(* totals, over its join.                                                     *)
Summary(from, to) == [count |-> Cardinality(OrdersIn(from, to)), received |-> Received(AccountedIn(from, to)),
                      profit |-> Profit(AccountedIn(from, to))]
CopiesOf(o) == Copies(order[o].customer)
OrderProfit(from, to) ==
  LET rows == {o \in OrdersIn(from, to) : Accounted(o)}
      received == SumFunction([o \in rows |-> CopiesOf(o) * order[o].received])
      purchase == SumFunction([o \in rows |-> CopiesOf(o) * order[o].purchase])
      freight == SumFunction([o \in rows |-> CopiesOf(o) * order[o].freight])
  IN [count |-> SumFunction([o \in OrdersIn(from, to) |-> CopiesOf(o)]), received |-> received,
      profit |-> received - purchase - freight]
CustomerRank(c, from, to) == Profit({o \in AccountedIn(from, to) : order[o].customer = c})
MonthlyTrend(n) == Profit(AccountedIn(n, n))

(* Sales target: the joined rows without a deal or with an opportunity that   *)
(* is Won, be it the order's or another of its customer.                      *)
Sales(rows) == SumFunction([o \in rows |-> order[o].amount])
OfCurrency(from, to, currency) == {o \in OrdersIn(from, to) : order[o].currency = currency}
TimesSold(o) == IF order[o].deal = None THEN CopiesOf(o)
                ELSE Cardinality({d \in DealsOf(order[o].customer) : stage[d] = "Won"})
SoldIn(from, to, currency) == SumFunction([o \in OfCurrency(from, to, currency) |-> TimesSold(o) * order[o].amount])

(* Won: the day of the first history record.                                  *)
WonOn(d) == Min(wins[d])
WonIn(from, to) == {d \in Deals : wins[d] # {} /\ Between(WonOn(d), from, to)}
WonCount(seller, from, to) == Cardinality({d \in WonIn(from, to) : seller \in {"Admin", owner[d]}})

(* Quotations: each with its current version, over the join; a line is worth  *)
(* 1.                                                                         *)
Current(q) == quote[q].versions[Len(quote[q].versions)]
QuotesIn(from, to) == {q \in Quotes : quote[q] # None /\ Between(quote[q].on, from, to)}
QuotedIn(from, to, currency) == {q \in QuotesIn(from, to) : Current(q).currency = currency}
Total(q) == Cardinality(Current(q).lines) + Current(q).shipping
QuoteAmount(from, to, currency) ==
  SumFunction([q \in QuotedIn(from, to, currency) |-> Copies(CustomerOf[q]) * Total(q)])
QuotedProduct(g, from, to, currency) ==
  SumFunction([q \in {r \in QuotedIn(from, to, currency) : g \in Current(r).lines} |-> Copies(CustomerOf[q])])

(* Dashboard: its reminder lists take a customer's follow-up with the highest *)
(* id, its customer counts the date kept on the customer.                     *)
NewestNotes == {n \in notes : \A m \in Of(notes, n.customer) : m.id <= n.id}
Listed == {n.customer : n \in {x \in NewestNotes : x.next # None /\ x.next <= day}}
DueToday == {c \in Customers : next[c] = day}
Overdue == {c \in Customers : next[c] # None /\ next[c] < day}
-----------------------------------------------------------------------------
(* The business analysis reports the orders and the profit inputs of the      *)
(* ledger, so it agrees with the profit page on every range.                  *)
ProfitPagesAgree == \A from, to \in 1..Days : OrderProfit(from, to) = Summary(from, to)

(* The two computations agree at least where no customer with an order has    *)
(* two opportunities, pending orders, losses and zeros included.              *)
SingleDealPagesAgree == \A from, to \in 1..Days :
  (\A o \in OrdersIn(from, to) : CopiesOf(o) = 1) => OrderProfit(from, to) = Summary(from, to)

(* Quotation amounts use each quotation's current version exactly once.       *)
QuotedOnce == \A currency \in Currencies, from, to \in 1..Days :
  QuoteAmount(from, to, currency) = SumFunction([q \in QuotedIn(from, to, currency) |-> Total(q)])

(* The customer ranking and the monthly trend split the total profit without  *)
(* losing or doubling an order.                                               *)
ProfitSplits ==
  /\ Summary(1, Days).profit = SumFunction([c \in Customers |-> CustomerRank(c, 1, Days)])
  /\ Summary(1, Days).profit = SumFunction([n \in 1..Days |-> MonthlyTrend(n)])

(* A past day's won deals are settled: losing, reopening, handing over or     *)
(* winning a deal again later changes nothing, only deleting it does.         *)
WinsStay == \A n \in 1..(day - 1) : WonIn(n, n)' = WonIn(n, n) \ {d \in Deals : stage'[d] = "gone"}

(* Sellers see their own deals, an Admin all: their wins of any range and     *)
(* those nobody owns add up to the Admin's, and the days to the range.        *)
WinsAddUp == \A from, to \in 1..Days :
  /\ WonCount("Admin", from, to) = SumFunction([s \in Sellers \cup {None} |-> WonCount(s, from, to)])
  /\ WonCount("Admin", from, to) = SumFunction([n \in from..to |-> WonCount("Admin", n, n)])

(* The products of the quoted-products table and the shipping make the quoted *)
(* amount, in every currency, however many versions a quotation has had and   *)
(* however often the join repeats it.                                         *)
QuotedProductsAddUp == \A currency \in Currencies, from, to \in 1..Days :
  LET rows == QuotedIn(from, to, currency) IN
  QuoteAmount(from, to, currency) = SumFunction([g \in Goods |-> QuotedProduct(g, from, to, currency)])
                                  + SumFunction([q \in rows |-> Copies(CustomerOf[q]) * Current(q).shipping])

(* Where no customer has two opportunities, the sales are the orders without  *)
(* a deal and those whose own deal is Won; and a narrower range never sells   *)
(* more than a wider one.                                                     *)
SalesAreWon == \A currency \in Currencies, from, to \in 1..Days :
  LET rows == OfCurrency(from, to, currency)
      won == {o \in rows : order[o].deal # None => stage[order[o].deal] = "Won"}
  IN /\ (\A o \in rows : CopiesOf(o) = 1) => SoldIn(from, to, currency) = Sales(won)
     /\ SoldIn(from, to, currency) <= SoldIn(1, Days, currency)

(* The won figures count won opportunities: deals that are Won.               *)
WonMeansWon == \A d \in WonIn(1, Days) : stage[d] = "Won"

(* The latest follow-up of a customer defines the current reminder: the       *)
(* dashboard's lists and its customer counts name the same customers.         *)
LatestDefinesReminder == Listed = DueToday \cup Overdue
=============================================================================
