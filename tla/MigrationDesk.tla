---------------------------- MODULE MigrationDesk ---------------------------
(* Migrations for TLC.  One runner at work, with every stage, follow-up or    *)
(* value a row may hold when found; or two runners on one row, at the         *)
(* revisions around every repair and refusal.                                 *)
EXTENDS Migrations

CONSTANTS Desks,  \* what varies: "stages", "reminders", "values", "together"
          Alone   \* the one runner
VARIABLE desk
deskVars == <<vars, desk>>

(* What varies in the rows of each setting, and the revisions it starts at.   *)
TopicsOf ==
  [stages |-> {"stages"}, reminders |-> {"reminders"}, values |-> {"scores", "orders", "inquiries"},
   together |-> Topics]
StartsOf ==
  [stages |-> {2, 4, 6, 9, 13, 15, 21, 31}, reminders |-> {9, 13, 16, 17}, values |-> {9, 16, 21, 23, 31},
   together |-> Starts]

RollbackTo ==
  [stages |-> {2, 5, 6, 13, 15, 18}, reminders |-> {16, 18}, values |-> {10, 16, 19, 22, 23},
   together |-> {1, 2, 4, 9, 11, 16, 18, 21, 23}]

ASSUME DeskAssumption ==
  /\ MigrationAssumption
  /\ Desks \subseteq {"stages", "reminders", "values", "together"}

DeskInit == \E s \in Desks : desk = s /\ FoundAmong(StartsOf[s], TopicsOf[s])

DeskNext ==
  /\ Next /\ UNCHANGED desk
  /\ \A p \in Runners : run'[p] # None => run'[p].to \in RollbackTo[desk] \cup {Latest}
  /\ desk # "together" => ended' <= 2 /\ \A p \in Runners \ {Alone} : run'[p] = None

DeskSpec == DeskInit /\ [][DeskNext]_deskVars
-----------------------------------------------------------------------------
(* What the data steps make of a row: stages, trails, labels, levels, owners, *)
(* reminders and pending amounts are those the program itself would have      *)
(* written, after any sequence of upgrades and rollbacks.                     *)
DataKept ==
  /\ [](/\ MigratedAsKept
        /\ TrailEndsAtStage
        /\ LabelRoundTrip
        /\ LevelMatches
        /\ OwnersSettled
        /\ ReminderIsLatest)
  /\ StagesKept
  /\ PendingStaysPending

(* What a run leaves of the schema: all that the ORM maps at the head, the    *)
(* truth in the stamp, the guard of the histories, and failures only for the  *)
(* known reasons, also when runs overlap.                                     *)
SchemaServes ==
  /\ [](TypeOK /\ HeadServesOrm /\ StampIsTrue /\ FaultsKnown)
  /\ HistoryGuarded
=============================================================================
