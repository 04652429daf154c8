---------------------------- MODULE PasswordForms ----------------------------
(***************************************************************************)
(* The three pages on which a new password is typed twice: registration,   *)
(* the reset by e-mail, and the security settings.                         *)
(*                                                                         *)
(* Angular runs a control's own validators when that control is edited,    *)
(* and then the validator of the group.  On the first two pages the group  *)
(* validator writes an error into the control `confirmPassword', which     *)
(* only an edit of that control takes away; on the third the group keeps   *)
(* its own error, computed at every edit.                                  *)
(*                                                                         *)
(* A password is the set of the kinds of characters it has, with `long'    *)
(* for eight characters or more: two passwords agree when their sets do.   *)
(* The other fields of the pages are taken to be filled in.                *)
(*                                                                         *)
(* Bounds: the passwords that are typed (Passwords), the submissions       *)
(* (MaxSubmits).                                                           *)
(***************************************************************************)
EXTENDS Integers

CONSTANTS
  Passwords,  \* the passwords that may be typed: sets of CharKinds
  MaxSubmits  \* bound on submissions

CharKinds == {"long", "lower", "upper", "digit", "special", "other"}

ASSUME PasswordAssumption ==
  /\ Passwords \subseteq SUBSET CharKinds
  /\ MaxSubmits \in Nat

VARIABLES
  passwordPage, \* the page this behaviour is about
  password,     \* the field password, or newPassword
  confirm,      \* the field confirmPassword
  confirmError, \* the errors of the control confirmPassword
  groupError,   \* the error of the group
  strength,     \* passwordStrength, in percent
  sending,      \* isLoading, isChangingPassword: a request is under way
  done,         \* what the page shows: "form", "saved", or "invalid" for a
                \* link that no longer works
  refused,      \* history: the server's validation refused a request
  submits,      \* submissions so far
  edited        \* history: the field edited last

passwordVars == <<passwordPage, password, confirm, confirmError, groupError, strength,
                  sending, done, refused, submits, edited>>

Pages == {"register", "reset", "security"}

----------------------------------------------------------------------------
\* The pattern of the three forms: one of each kind, nothing else.
MatchesPattern(p) == p = {"long", "lower", "upper", "digit", "special"}

\* RegisterDto, ResetPasswordDto and ChangePasswordDto have a pattern each.
DtoAccepts(p) == {"long", "lower", "upper", "digit", "special"} = p

\* calculatePasswordStrength
Weight(kind) ==
  CASE kind \in {"long", "lower", "upper"} -> 25
    [] kind = "digit"                      -> 15
    [] kind = "special"                    -> 10
    [] kind = "other"                      -> 0

Part(p, kind) == IF kind \in p THEN Weight(kind) ELSE 0

StrengthOf(p) ==
  Part(p, "long") + Part(p, "lower") + Part(p, "upper")
    + Part(p, "digit") + Part(p, "special")

\* The page of the security settings shows no strength.
ShownStrength(p) == IF passwordPage = "security" THEN 0 ELSE StrengthOf(p)

\* confirmPassword's own validator
OwnError(c) == IF c = {} THEN "required" ELSE "none"

\* passwordMatchValidator; own is the error confirmPassword has before it
ForgetsMismatch(p, c, own) ==
  /\ groupError' = FALSE
  /\ confirmError' = own

MatchValidator(p, c, own) ==
  /\ groupError' = (p # c)
  /\ confirmError' = IF p # c /\ passwordPage # "security" THEN "mismatch" ELSE own

\* form.invalid is the disjunction of the errors of the controls and the group.
PasswordValid == MatchesPattern(password) /\ confirmError = "none" /\ ~groupError

----------------------------------------------------------------------------
(* The user.                                                               *)

TypePassword ==
  /\ done = "form"
  /\ \E p \in Passwords \ {password} :
       /\ password' = p
       /\ strength' = ShownStrength(p)
       /\ MatchValidator(p, confirm, confirmError)
  /\ edited' = "password"
  /\ UNCHANGED <<passwordPage, confirm, sending, done, refused, submits>>

TypeConfirm ==
  /\ done = "form"
  /\ \E c \in Passwords \ {confirm} :
       /\ confirm' = c
       /\ MatchValidator(password, c, OwnError(c))
  /\ edited' = "confirm"
  /\ UNCHANGED <<passwordPage, password, strength, sending, done, refused, submits>>

\* onSubmit, changePassword: the button is disabled while the form is invalid
\* or a request is under way.
SendPassword ==
  /\ done = "form" /\ ~sending
  /\ PasswordValid
  /\ submits < MaxSubmits
  /\ submits' = submits + 1
  /\ sending' = TRUE
  /\ refused' = (refused \/ ~DtoAccepts(password))
  /\ UNCHANGED <<passwordPage, password, confirm, confirmError, groupError, strength,
                 done, edited>>

\* The request is done: registration goes to the login page, the reset shows
\* that it worked, and the security settings clear the form.
Saved ==
  /\ sending
  /\ sending' = FALSE
  /\ IF passwordPage = "security"
     THEN /\ password' = {} /\ confirm' = {}
          /\ confirmError' = "required" /\ groupError' = FALSE
          /\ UNCHANGED done
     ELSE done' = "saved" /\ UNCHANGED <<password, confirm, confirmError, groupError>>
  /\ UNCHANGED <<passwordPage, strength, refused, submits, edited>>

\* The request is refused.  The reset takes 400 and 404 for a dead link.
Failed ==
  /\ sending
  /\ sending' = FALSE
  /\ done' \in (IF passwordPage = "reset" THEN {"form", "invalid"} ELSE {"form"})
  /\ UNCHANGED <<passwordPage, password, confirm, confirmError, groupError, strength,
                 refused, submits, edited>>

----------------------------------------------------------------------------
\* Without a token in its address the reset page begins with a dead link.
PasswordInit ==
  /\ passwordPage \in Pages
  /\ password = {} /\ confirm = {}
  /\ confirmError = "required" /\ groupError = FALSE
  /\ strength = 0 /\ sending = FALSE
  /\ done \in (IF passwordPage = "reset" THEN {"form", "invalid"} ELSE {"form"})
  /\ refused = FALSE /\ submits = 0 /\ edited = "none"

PasswordNext == TypePassword \/ TypeConfirm \/ SendPassword \/ Saved \/ Failed

PasswordSpec == PasswordInit /\ [][PasswordNext]_passwordVars

----------------------------------------------------------------------------
(* Properties.                                                             *)

PasswordTypeOK ==
  /\ passwordPage \in Pages
  /\ {password, confirm} \subseteq Passwords \cup {{}}
  /\ confirmError \in {"none", "required", "mismatch"}
  /\ {groupError, sending, refused} \subseteq BOOLEAN
  /\ strength \in 0 .. 100
  /\ done \in {"form", "saved", "invalid"}
  /\ submits \in 0 .. MaxSubmits
  /\ edited \in {"none", "password", "confirm"}

\* A form is valid only with twice the same password the server will accept.
\* With these it is valid, except on the registration and reset pages after
\* the first field was corrected to agree with the second: they stay blocked
\* until the second is typed again.  And the bar is full for every password
\* the pattern matches.
ValidWhenAgreed ==
  /\ PasswordValid => password = confirm /\ ~refused
  /\ password = confirm /\ MatchesPattern(password) =>
       PasswordValid \/ (passwordPage # "security" /\ edited = "password")
  /\ MatchesPattern(password) /\ passwordPage # "security" => strength = 100

=============================================================================
