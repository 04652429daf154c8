---------------------------- MODULE Surroundings ----------------------------
(***************************************************************************)
(* The parts around the bookings, the sessions and the subscriptions that  *)
(* share no state with one another: pages of the frontend, the live        *)
(* connection, the reminders, the dates of the reports, and who is shown   *)
(* what.  A behaviour of this module is a behaviour of one of them,        *)
(* `component', and the others stay in one of their initial states: TLC    *)
(* checks the union of their behaviours, and each module's properties on   *)
(* its own.                                                                *)
(***************************************************************************)
EXTENDS Badge, ListPages, EditForms, PasswordForms, LiveSocket, LiveBoards,
        Reminders, Dates, Navigation

VARIABLE component

allVars == <<component, badgeVars, listVars, formVars, passwordVars, socketVars,
             boardVars, reminderVars, dateVars, navVars>>

Components == {"badge", "lists", "forms", "passwords", "socket", "boards",
               "reminders", "dates", "navigation"}

----------------------------------------------------------------------------
(* The initial state a component that is not the chosen one stays in.      *)

BadgeIdle == notes = <<>>

ListIdle == screen = "audit" /\ stored = [r \in Rows |-> "CREATE"]

FormIdle == form = "general"

PasswordIdle == passwordPage = "security"

BoardIdle == board = "reports"

ReminderIdle == start = 8

DateIdle == zone = [before |-> 0, after |-> 0]

NavigationIdle == granted = Seeded("CLIENTE")

SurroundingsInit ==
  /\ component \in Components
  /\ BadgeInit    /\ (component # "badge" => BadgeIdle)
  /\ ListInit     /\ (component # "lists" => ListIdle)
  /\ FormInit     /\ (component # "forms" => FormIdle)
  /\ PasswordInit /\ (component # "passwords" => PasswordIdle)
  /\ SocketInit
  /\ BoardInit    /\ (component # "boards" => BoardIdle)
  /\ ReminderInit /\ (component # "reminders" => ReminderIdle)
  /\ DateInit     /\ (component # "dates" => DateIdle)
  /\ NavigationInit /\ (component # "navigation" => NavigationIdle)

SurroundingsNext ==
  \/ /\ component = "badge" /\ BadgeNext
     /\ UNCHANGED <<component, listVars, formVars, passwordVars, socketVars, boardVars,
                    reminderVars, dateVars, navVars>>
  \/ /\ component = "lists" /\ ListNext
     /\ UNCHANGED <<component, badgeVars, formVars, passwordVars, socketVars, boardVars,
                    reminderVars, dateVars, navVars>>
  \/ /\ component = "forms" /\ FormNext
     /\ UNCHANGED <<component, badgeVars, listVars, passwordVars, socketVars, boardVars,
                    reminderVars, dateVars, navVars>>
  \/ /\ component = "passwords" /\ PasswordNext
     /\ UNCHANGED <<component, badgeVars, listVars, formVars, socketVars, boardVars,
                    reminderVars, dateVars, navVars>>
  \/ /\ component = "socket" /\ SocketNext
     /\ UNCHANGED <<component, badgeVars, listVars, formVars, passwordVars, boardVars,
                    reminderVars, dateVars, navVars>>
  \/ /\ component = "boards" /\ BoardNext
     /\ UNCHANGED <<component, badgeVars, listVars, formVars, passwordVars, socketVars,
                    reminderVars, dateVars, navVars>>
  \/ /\ component = "reminders" /\ ReminderNext
     /\ UNCHANGED <<component, badgeVars, listVars, formVars, passwordVars, socketVars,
                    boardVars, dateVars, navVars>>
  \/ /\ component = "dates" /\ DateNext
     /\ UNCHANGED <<component, badgeVars, listVars, formVars, passwordVars, socketVars,
                    boardVars, reminderVars, navVars>>
  \/ /\ component = "navigation" /\ NavigationNext
     /\ UNCHANGED <<component, badgeVars, listVars, formVars, passwordVars, socketVars,
                    boardVars, reminderVars, dateVars>>

SurroundingsSpec == SurroundingsInit /\ [][SurroundingsNext]_allVars

----------------------------------------------------------------------------
\* The component that moves keeps its variables in the ranges its code gives
\* them; the others do not move.
SurroundingsTypeOK ==
  CASE component = "badge"      -> BadgeTypeOK
    [] component = "lists"      -> ListTypeOK
    [] component = "forms"      -> FormTypeOK
    [] component = "passwords"  -> PasswordTypeOK
    [] component = "socket"     -> SocketTypeOK
    [] component = "boards"     -> BoardTypeOK
    [] component = "reminders"  -> ReminderTypeOK
    [] component = "dates"      -> DateTypeOK
    [] component = "navigation" -> NavigationTypeOK

=============================================================================
