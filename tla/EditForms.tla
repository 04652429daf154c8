------------------------------ MODULE EditForms ------------------------------
(***************************************************************************)
(* The pages with a form over one stored row: booking, service and user    *)
(* (new or being edited), the settings of the tenant, its branding, and    *)
(* the profile and preferences of a user.  A behaviour is about one visit  *)
(* to one of them, `form', chosen once.                                    *)
(*                                                                         *)
(* The user may type while the row is still being loaded, and while it is  *)
(* being saved: the answers write over what is in the form, or read it     *)
(* again.  The header of the layout shows the tenant's or the user's name  *)
(* and colours, which the page changes when it has saved them.             *)
(*                                                                         *)
(* Fields stand for groups of fields with the same validation: `key' for   *)
(* the required ones, which begin empty; `extra' for those with a default  *)
(* of their own; `secret' for the password of a user; `logo' for the logo. *)
(*                                                                         *)
(* Bounds: what the user does (MaxDeeds).                                  *)
(***************************************************************************)
EXTENDS Integers, FiniteSets, SequencesExt

CONSTANTS
  Forms,    \* the pages behaviours are about
  Typed,    \* values the user may type
  MaxDeeds  \* bound on what the user does

AllForms == {"booking", "service", "user", "general", "branding", "profile",
             "preferences"}

Blank == ""

ASSUME FormAssumption ==
  /\ Forms \subseteq AllForms
  /\ Typed \cap {Blank, "default", "stored", "unsent"} = {}
  /\ MaxDeeds \in Nat

VARIABLES
  form,       \* the page this behaviour is about
  editing,    \* isEditMode; the settings and the profile are always edited
  field,      \* the values in the form
  open,       \* the page is shown
  arrived,    \* the row has been loaded into the form
  submitting, \* isSubmitting, isUpdating
  calls,      \* the calls under way, in the order they were sent
  db,         \* the stored row
  header,     \* what the header shows of it
  created,    \* history: rows created by this visit
  lost,       \* history: answers lost although the row was saved
  early,      \* history: saved before the row was loaded
  changed,    \* history: the form changed while saving
  overtaken,  \* history: the layout's load came after a save
  deeds       \* what the user has done so far

formVars == <<form, editing, field, open, arrived, submitting, calls, db, header,
              created, lost, early, changed, overtaken, deeds>>

Fields == {"key", "extra", "secret", "logo"}

Values == Typed \cup {Blank, "default", "stored"}

----------------------------------------------------------------------------
(* What differs from form to form.                                         *)

\* initForm of each page: which fields it has, and the default it gives.
BookingFields == {"key", "extra"}

ServiceFields == {"key", "extra"}

UserFields == {"key", "extra", "secret"}

ShownFields ==
  CASE form = "booking"                -> BookingFields
    [] form = "service"                -> ServiceFields
    [] form = "user"                   -> UserFields
    [] form \in {"general", "profile"} -> {"key"}
    [] form = "branding"               -> {"extra", "logo"}
    [] form = "preferences"            -> {"extra"}

Default(f) ==
  IF f = "extra" /\ form \in {"service", "user", "branding", "preferences"}
  THEN "default" ELSE Blank

\* The password is required until a loaded user clears its validators, and
\* it is shown only for a new user.
PasswordOptional == {"key"}

Required == {"key"} \cup (IF editing /\ arrived THEN {} ELSE {"secret"})

Valid == \A f \in ShownFields \cap Required : field[f] # Blank

CanType(f) ==
  /\ f \in ShownFields
  /\ f = "secret" => ~editing

\* What a save sends: an edit sends no password, and a logo that was removed
\* is left out, since null || undefined is undefined.
Sent(f) == f = "logo" => field[f] # Blank

SentFields ==
  {f \in ShownFields : Sent(f) /\ (f = "secret" => ~editing)}

\* Only the profile page waits for its data before it shows its forms.
WaitsForLoad == form \in {"profile", "preferences"}

\* A row page goes back to the list when it has saved or cannot load.
IsRowPage == form \in {"booking", "service", "user"}

----------------------------------------------------------------------------
Loading == [kind |-> "load", answer |-> "none", data |-> field]

Layout == [kind |-> "layout", answer |-> "none", data |-> field]

Saving == [kind |-> "save", answer |-> "none",
           data |-> [f \in Fields |-> IF f \in SentFields THEN field[f] ELSE "unsent"]]

InHeader ==
  CASE form \in {"general", "profile"} -> {"key"}
    [] form = "branding"               -> {"extra", "logo"}
    [] OTHER                           -> {}

Header(row) == [f \in InHeader |-> row[f]]

\* The header shows the tenant's name and colours, not only the user's name.
LayoutLoads == form \in {"general", "branding"}

SavePending == \E i \in DOMAIN calls : calls[i].kind = "save"

\* The server.  findOne, getCurrentTenant, getProfile
AnswerRow(i) ==
  /\ calls[i].kind # "save" /\ calls[i].answer = "none"
  /\ \/ calls' = [calls EXCEPT ![i].answer = "ok", ![i].data = db]
     \/ calls' = [calls EXCEPT ![i].answer = "error"]
  /\ UNCHANGED <<form, editing, field, open, arrived, submitting, db, header,
                 created, lost, early, changed, overtaken, deeds>>

Written(data) == [f \in Fields |-> IF data[f] = "unsent" THEN db[f] ELSE data[f]]

\* A save is done, refused, or done although its answer is lost.
AnswerWrite(i) ==
  /\ calls[i].kind = "save" /\ calls[i].answer = "none"
  /\ \/ calls' = [calls EXCEPT ![i].answer = "error"]
        /\ UNCHANGED <<db, created, lost>>
     \/ \E answer \in {"ok", "error"} :
          /\ calls' = [calls EXCEPT ![i].answer = answer]
          /\ db' = Written(calls[i].data)
          /\ created' = created + (IF editing THEN 0 ELSE 1)
          /\ lost' = lost + (IF answer = "error" THEN 1 ELSE 0)
  /\ UNCHANGED <<form, editing, field, open, arrived, submitting, header, early,
                 changed, overtaken, deeds>>

----------------------------------------------------------------------------
(* The page.                                                               *)

\* loadBooking, loadService, loadUser, loadTenantSettings, loadProfile: the
\* answer is patched over what is in the form, the password excepted.
DeliverRow(i) ==
  /\ calls[i].kind = "load" /\ calls[i].answer # "none"
  /\ calls' = RemoveAt(calls, i)
  /\ IF calls[i].answer = "ok"
     THEN /\ field' = [f \in Fields |->
                         IF f \in ShownFields \ {"secret"}
                         THEN calls[i].data[f] ELSE field[f]]
          /\ arrived' = TRUE
          /\ UNCHANGED open
     ELSE open' = (open /\ ~IsRowPage) /\ UNCHANGED <<field, arrived>>
  /\ changed' = (changed \/ SavePending)
  /\ UNCHANGED <<form, editing, submitting, db, header, created, lost, early,
                 overtaken, deeds>>

\* loadBranding of the layout falls back to its defaults.
DeliverLayout(i) ==
  /\ calls[i].kind = "layout" /\ calls[i].answer # "none"
  /\ calls' = RemoveAt(calls, i)
  /\ header' = IF calls[i].answer = "ok" THEN Header(calls[i].data)
               ELSE [f \in InHeader |-> "default"]
  /\ overtaken' = (overtaken \/ calls[i].data # db \/ calls[i].answer = "error")
  /\ UNCHANGED <<form, editing, field, open, arrived, submitting, db, created, lost,
                 early, changed, deeds>>

\* The settings tell the header what the form holds when the answer comes;
\* the profile tells it what was sent.
AnnouncedLive(call) == Header(field)

Announced(call) ==
  IF form = "profile" THEN [f \in InHeader |-> call.data[f]] ELSE Header(field)

\* Row pages stay busy after a success: they are left.
Busy(answer) == IsRowPage /\ answer = "ok"

DeliverWrite(i) ==
  /\ calls[i].kind = "save" /\ calls[i].answer # "none"
  /\ calls' = RemoveAt(calls, i)
  /\ submitting' = Busy(calls[i].answer)
  /\ IF calls[i].answer = "ok"
     THEN /\ open' = (open /\ ~IsRowPage)
          /\ header' = Announced(calls[i])
     ELSE UNCHANGED <<open, header>>
  /\ UNCHANGED <<form, editing, field, arrived, db, created, lost, early, changed,
                 overtaken, deeds>>

----------------------------------------------------------------------------
(* The user.                                                               *)

Usable == open /\ (WaitsForLoad => \A i \in DOMAIN calls : calls[i].kind # "load")

Deed == deeds < MaxDeeds /\ deeds' = deeds + 1

\* The fields can be typed in while a save is under way.
Type ==
  /\ Deed
  /\ Usable
  /\ \E f \in {g \in Fields : CanType(g)} :
     \E v \in Typed \cup (IF f = "logo" THEN {Blank} ELSE {}) :
       v # field[f] /\ field' = [field EXCEPT ![f] = v]
  /\ changed' = (changed \/ SavePending)
  /\ UNCHANGED <<form, editing, open, arrived, submitting, calls, db, header, created,
                 lost, early, overtaken>>

\* onSubmit, updateProfile, updateNotifications: the button is disabled while
\* the form is invalid or being saved.
Impatient == Valid

CanSubmit == Valid /\ ~submitting

Submit ==
  /\ Deed
  /\ Usable
  /\ CanSubmit
  /\ submitting' = TRUE
  /\ calls' = Append(calls, Saving)
  /\ early' = (early \/ (editing /\ ~arrived))
  /\ UNCHANGED <<form, editing, field, open, arrived, db, header, created, lost,
                 changed, overtaken>>

\* The user follows a link away; answers still come.
Leave ==
  /\ Deed
  /\ open
  /\ open' = FALSE
  /\ UNCHANGED <<form, editing, field, arrived, submitting, calls, db, header, created,
                 lost, early, changed, overtaken>>

----------------------------------------------------------------------------
\* ngOnInit: the form is built with its defaults, then the row is loaded.  The
\* layout, begun with the page, loads the branding by itself.
FormInit ==
  /\ form \in Forms
  /\ editing \in IF IsRowPage THEN BOOLEAN ELSE {TRUE}
  /\ field = [f \in Fields |-> Default(f)]
  /\ db = [f \in Fields |-> "stored"]
  /\ header = IF LayoutLoads THEN [f \in InHeader |-> "default"] ELSE Header(db)
  /\ open = TRUE /\ arrived = FALSE /\ submitting = FALSE
  /\ calls = (IF editing THEN <<Loading>> ELSE <<>>)
               \o (IF LayoutLoads THEN <<Layout>> ELSE <<>>)
  /\ created = 0 /\ lost = 0 /\ deeds = 0
  /\ early = FALSE /\ changed = FALSE /\ overtaken = FALSE

FormNext ==
  \/ \E i \in DOMAIN calls :
       \/ AnswerRow(i) \/ AnswerWrite(i)
       \/ DeliverRow(i) \/ DeliverLayout(i) \/ DeliverWrite(i)
  \/ Type \/ Submit \/ Leave

FormSpec == FormInit /\ [][FormNext]_formVars

----------------------------------------------------------------------------
(* Properties.                                                             *)

FormTypeOK ==
  /\ form \in Forms
  /\ field \in [Fields -> Values]
  /\ db \in [Fields -> Values]
  /\ header \in [InHeader -> Values]
  /\ {editing, open, arrived, submitting, early, changed, overtaken} \subseteq BOOLEAN
  /\ {created, lost, deeds} \subseteq Nat

\* A field the user did not touch keeps its stored value.  The form's own
\* default, or nothing, is saved over it only where the form can be sent
\* before the row has come, which the users', the general settings' and the
\* profile's required fields prevent.
UntouchedKept ==
  editing =>
    \A f \in Fields \ {"logo"} : db[f] \in {Blank, "default"} =>
      early /\ form \in {"booking", "service", "branding", "preferences"}

\* One visit creates one row, and one more for each answer that was lost;
\* the page is busy only while a save of its own is under way or when it is left.
CreatedOnce ==
  /\ created <= 1 + lost
  /\ submitting => SavePending \/ ~open

\* With nothing under way the header shows what is stored, unless the form
\* changed while a save was under way, the logo was removed, an answer was
\* lost, or the layout's own load came late.
HeaderIsStored ==
  calls = <<>> /\ ~overtaken /\ lost = 0 =>
    header = Header(db)
      \/ (form \in {"general", "branding"} /\ changed)
      \/ (form = "branding" /\ header["logo"] = Blank)

=============================================================================
