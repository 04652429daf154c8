----------------------------- MODULE Navigation -----------------------------
(***************************************************************************)
(* Who is shown what in the frontend, and whether it then works: the       *)
(* routes and their guards, the links and the calls each page offers,      *)
(* against what the controllers ask of the token (Endpoints).  The pages   *)
(* ask the user the browser keeps since the login; the server asks the     *)
(* token, which says what the user's role permitted when it was made.  A   *)
(* role changes meanwhile, and a refresh makes a new token only.           *)
(*                                                                         *)
(* Pages are reached by links, of the frontend or of mails and of Stripe;  *)
(* addresses typed by hand are left out.  A refresh succeeds or fails      *)
(* (TokenRefresh and Sessions say when).                                   *)
(*                                                                         *)
(* Bounds: changes of the role (MaxGrants).  Time is counted in periods of *)
(* which an access token outlives Life.                                    *)
(***************************************************************************)
EXTENDS Endpoints, Integers, Sequences

CONSTANTS
  Life,              \* jwt.expiresIn, in periods
  CustomPermissions, \* permissions a role made by a tenant may have
  MaxGrants          \* bound on the changes of the user's role

ASSUME NavigationAssumption ==
  /\ Life \in Nat \ {0} /\ MaxGrants \in Nat
  /\ CustomPermissions \subseteq SUBSET (PermissionNames \ {"SUPER_ADMIN"})

VARIABLES
  granted, \* the role of the user and its permissions, in the database
  token,   \* the access token in localStorage
  age,     \* periods since it was made
  user,    \* currentUser of AuthService
  view,    \* the page shown
  recent,  \* history: what was granted in this period and the Life before it
  grants   \* changes of `granted' so far

navVars == <<granted, token, age, user, view, recent, grants>>

Nobody == [role |-> "none", permissions |-> {}]

Seeded(role) == [role |-> role, permissions |-> SeededRoles[role]]

Custom(permissions) == [role |-> "custom", permissions |-> permissions]

SignedIn == token # Nobody

Expired == age > Life

----------------------------------------------------------------------------
(* Routes, with the permissions of which their guard wants one.  The admin *)
(* routes name a role, which the guard does not read.                      *)

BookingsRoutes ==
  [p \in {"bookings", "bookings/:id", "bookings/new", "bookings/:id/edit"} |->
     IF p \in {"bookings/new", "bookings/:id/edit"} THEN {"CREATE_BOOKING"} ELSE {}]

ServicesRoutes ==
  [p \in {"services", "services/new", "services/:id/edit"} |->
     IF p = "services" THEN {"VIEW_SERVICES"} ELSE {"MANAGE_SERVICES"}]

UsersRoutes ==
  [p \in {"users", "users/new", "users/:id/edit"} |-> {"MANAGE_USERS"}]

SettingsRoutes ==
  [p \in {"settings/general", "settings/branding", "settings/subscription",
          "settings/security"} |-> {"MANAGE_SETTINGS"}]

AdminRoutes ==
  [p \in {"admin/tenants", "admin/tenants/:id", "admin/plans", "admin/reports"} |-> {}]

PlainPages == {"dashboard", "notifications", "reports", "audit", "profile"}

Routes ==
  [p \in PlainPages \cup DOMAIN BookingsRoutes \cup DOMAIN ServicesRoutes
         \cup DOMAIN UsersRoutes \cup DOMAIN SettingsRoutes \cup DOMAIN AdminRoutes |->
     CASE p \in PlainPages            -> {}
       [] p \in DOMAIN BookingsRoutes -> BookingsRoutes[p]
       [] p \in DOMAIN ServicesRoutes -> ServicesRoutes[p]
       [] p \in DOMAIN UsersRoutes    -> UsersRoutes[p]
       [] p \in DOMAIN SettingsRoutes -> SettingsRoutes[p]
       [] p \in DOMAIN AdminRoutes    -> AdminRoutes[p]]

AuthPages == {"auth/login", "auth/register", "auth/forgot-password",
              "auth/reset-password"}

HasPermission(permission) == permission \in user.permissions

IsAdmin == user.role \in {"ADMIN_EMPRESA", "SUPER_ADMIN"}

\* permissionGuard
Passes(required) == required = {} \/ \E permission \in required : HasPermission(permission)

\* Where a link leads.  guestGuard turns the signed-in back to the dashboard,
\* authGuard the others to the login; permissionGuard sends to a route that
\* does not exist, and those lead to the dashboard.
Destination(link) ==
  CASE link \in AuthPages -> IF SignedIn THEN "dashboard" ELSE link
    [] link \notin AuthPages /\ ~SignedIn -> "auth/login"
    [] OTHER -> IF link \in DOMAIN Routes /\ Passes(Routes[link]) THEN link
                ELSE "dashboard"

----------------------------------------------------------------------------
(* What the pages offer: links, and the calls of their buttons and loads.  *)

Offer(links, calls) == [links |-> links, calls |-> calls]

\* x if the condition holds
When(condition, x) == IF condition THEN x ELSE {}

LoginOffers == Offer({"auth/forgot-password", "auth/register"}, {<<"auth", "login">>})

RegisterOffers == Offer({"auth/login"}, {<<"auth", "register">>})

ForgotPasswordOffers == Offer({"auth/login"}, {<<"auth", "forgotPassword">>})

ResetPasswordOffers ==
  Offer({"auth/forgot-password", "auth/login"}, {<<"auth", "resetPassword">>})

MainNavItems == {"dashboard", "bookings", "notifications"}

ManagementNavItems ==
  When(HasPermission("MANAGE_SERVICES") \/ HasPermission("VIEW_SERVICES"), {"services"})
  \cup When(HasPermission("MANAGE_USERS"), {"users"})
  \cup When(HasPermission("VIEW_REPORTS"), {"reports"})

AdminNavItems == When(IsAdmin, {"settings/general", "audit"})

SuperAdminNavItems ==
  When(user.role = "SUPER_ADMIN", {"admin/tenants", "admin/plans", "admin/reports"})

\* The plan shown is that of no tenant: free, except to the super administrator.
SidebarOffers ==
  Offer(MainNavItems \cup ManagementNavItems \cup AdminNavItems \cup SuperAdminNavItems
        \cup When(user.role = "ADMIN_EMPRESA", {"settings/subscription"}), {})

HeaderOffers ==
  Offer({"notifications", "profile", "bookings/:id"} \cup When(IsAdmin, {"settings/general"}),
        {"notifications"} \X {"findAll", "countUnread", "markAsRead", "markAllAsRead"})

LayoutCalls == {<<"tenants", "getMyTenant">>}

\* Booking is offered to who does not manage bookings, and to anyone who has none.
DashboardOffers ==
  Offer({"bookings/new", "bookings", "services"}
        \cup When(HasPermission("MANAGE_SERVICES"), {"services/new"}),
        {"bookings", "services", "notifications"} \X {"findAll"})

CanManageBookings == HasPermission("MANAGE_BOOKINGS")

\* Without bookings only those who manage them are offered to make one.
BookingsListOffers ==
  Offer({"bookings/new", "bookings/:id"},
        {"bookings"} \X ({"findAll", "cancel"} \cup When(CanManageBookings, {"update"})))

BookingDetailOffers ==
  Offer({"bookings"},
        {"bookings"} \X ({"findOne", "cancel"} \cup When(CanManageBookings, {"update"})))

BookingFormOffers(edits) ==
  Offer({"bookings"},
        {<<"services", "findAll">>} \cup
        {"bookings"} \X (IF edits THEN {"findOne", "update"} ELSE {"create"}))

CanManageServices == HasPermission("MANAGE_SERVICES")

ServicesListOffers ==
  Offer(When(CanManageServices, {"services/new", "services/:id/edit"}),
        {"services"} \X ({"findAll"} \cup When(CanManageServices, {"update", "remove"})))

ServiceFormOffers(edits) ==
  Offer({"services"},
        {"services"} \X (IF edits THEN {"findOne", "update"} ELSE {"create"}))

UsersListOffers ==
  Offer({"users/new", "users/:id/edit"}, {"users"} \X {"findAll", "update"})

UserFormOffers(edits) ==
  Offer({"users"},
        {<<"roles", "findAll">>} \cup
        {"users"} \X (IF edits THEN {"findOne", "update"} ELSE {"create"}))

ProfileOffers ==
  Offer({}, {"profile"} \X {"getProfile", "updateProfile", "updateNotificationPreferences"})

NotificationsOffers ==
  Offer({}, {"notifications"} \X {"findAll", "markAsRead", "markAllAsRead"})

ReportsOffers == Offer({}, {<<"reports", "getFullReport">>})

AuditOffers == Offer({}, {<<"audit", "findAll">>})

\* The shell of the settings: its links are on each of their pages.
SettingsOffers(calls) == Offer(DOMAIN SettingsRoutes, calls)

GeneralOffers == SettingsOffers({"tenants"} \X {"getMyTenant", "updateMyTenantSettings"})

BrandingOffers == SettingsOffers({"tenants"} \X {"getMyTenant", "updateMyTenantSettings"})

SubscriptionOffers ==
  SettingsOffers({"subscriptions"} \X {"getCurrentSubscription", "createCheckout"})

SecurityOffers ==
  SettingsOffers({<<"profile", "changePassword">>} \cup
                 {"auth"} \X {"getSessions", "revokeSession", "logoutAll"})

TenantsListOffers ==
  Offer({"admin/tenants/:id"}, {"tenants"} \X {"findAll", "updateStatus"})

TenantDetailOffers == Offer({"admin/tenants"}, {<<"tenants", "findOne">>})

PlansOffers == Offer({}, {})

\* The page falls back to figures of its own when the call fails.
AdminReportsOffers == Offer({}, {<<"admin", "stats">>})

PageOffers ==
  CASE view = "auth/login"            -> LoginOffers
    [] view = "auth/register"         -> RegisterOffers
    [] view = "auth/forgot-password"  -> ForgotPasswordOffers
    [] view = "auth/reset-password"   -> ResetPasswordOffers
    [] view = "dashboard"             -> DashboardOffers
    [] view = "bookings"              -> BookingsListOffers
    [] view = "bookings/:id"          -> BookingDetailOffers
    [] view = "bookings/new"          -> BookingFormOffers(FALSE)
    [] view = "bookings/:id/edit"     -> BookingFormOffers(TRUE)
    [] view = "services"              -> ServicesListOffers
    [] view = "services/new"          -> ServiceFormOffers(FALSE)
    [] view = "services/:id/edit"     -> ServiceFormOffers(TRUE)
    [] view = "users"                 -> UsersListOffers
    [] view = "users/new"             -> UserFormOffers(FALSE)
    [] view = "users/:id/edit"        -> UserFormOffers(TRUE)
    [] view = "profile"               -> ProfileOffers
    [] view = "notifications"         -> NotificationsOffers
    [] view = "reports"               -> ReportsOffers
    [] view = "audit"                 -> AuditOffers
    [] view = "settings/general"      -> GeneralOffers
    [] view = "settings/branding"     -> BrandingOffers
    [] view = "settings/subscription" -> SubscriptionOffers
    [] view = "settings/security"     -> SecurityOffers
    [] view = "admin/tenants"         -> TenantsListOffers
    [] view = "admin/tenants/:id"     -> TenantDetailOffers
    [] view = "admin/plans"           -> PlansOffers
    [] view = "admin/reports"         -> AdminReportsOffers

LinksShown ==
  PageOffers.links \cup
  When(view \notin AuthPages, SidebarOffers.links \cup HeaderOffers.links)

CallsShown ==
  PageOffers.calls \cup
  When(view \notin AuthPages, SidebarOffers.calls \cup HeaderOffers.calls \cup LayoutCalls)

\* Where the mails and Stripe send the user back to.
LinksFromOutside ==
  {"auth/reset-password", "subscription", "subscription/billing",
   "dashboard/subscription", "dashboard/subscription/success",
   "dashboard/subscription/cancel"}

\* Where a page goes when it may not load what it shows.
WayBack ==
  [p \in {"bookings/:id", "bookings/:id/edit", "services/:id/edit", "users/:id/edit"} |->
     LET pages == CASE p = "services/:id/edit" -> "services"
                    [] p = "users/:id/edit"    -> "users"
                    [] OTHER                   -> "bookings"
     IN  [load |-> <<pages, "findOne">>, to |-> pages]]

----------------------------------------------------------------------------
(* The browser.                                                            *)

FollowLink ==
  /\ \E link \in LinksShown : view' = Destination(link)
  /\ UNCHANGED <<granted, token, age, user, recent, grants>>

ComeBack ==
  /\ \E link \in LinksFromOutside : view' = Destination(link)
  /\ UNCHANGED <<granted, token, age, user, recent, grants>>

LoadRefused ==
  /\ view \in DOMAIN WayBack /\ SignedIn /\ ~Expired
  /\ ~Admits(WayBack[view].load, token)
  /\ view' = Destination(WayBack[view].to)
  /\ UNCHANGED <<granted, token, age, user, recent, grants>>

\* login: the token and the user of the answer are stored.
SignIn ==
  /\ view = "auth/login" /\ ~SignedIn
  /\ token' = granted /\ age' = 0
  /\ user' = granted
  /\ view' = "dashboard"
  /\ UNCHANGED <<granted, recent, grants>>

\* The header's logout and logoutAllDevices, which goes to a route that does
\* not exist and ends on the same page.
SignOut ==
  /\ SignedIn
  /\ token' = Nobody /\ age' = 0 /\ user' = Nobody
  /\ view' = "auth/login"
  /\ UNCHANGED <<granted, recent, grants>>

\* A call was refused because the token has expired.  The interceptor stores
\* the tokens of the refresh and leaves the user it was answered with.
Copied(old, current) == old

Refreshed(old, current) == current

Refresh ==
  /\ SignedIn /\ Expired
  /\ token' = Refreshed(token, granted) /\ age' = 0
  /\ UNCHANGED <<granted, user, view, recent, grants>>

\* It clears the storage when that fails, but not currentUser.
ForceOut ==
  /\ SignedIn /\ Expired
  /\ token' = Nobody /\ age' = 0
  /\ view' = "auth/login"
  /\ UNCHANGED <<granted, user, recent, grants>>

----------------------------------------------------------------------------
(* The server and time.                                                    *)

Regrant(grant) ==
  /\ grants < MaxGrants /\ grants' = grants + 1
  /\ grant # granted
  /\ granted' = grant
  /\ recent' = [recent EXCEPT ![1] = @ \cup {grant}]
  /\ UNCHANGED <<token, age, user, view>>

\* update of users.service.ts: any role but that of the super administrator.
AssignRole ==
  \/ \E role \in DOMAIN SeededRoles \ {"SUPER_ADMIN"} : Regrant(Seeded(role))
  \/ \E permissions \in CustomPermissions :
       granted.role # "custom" /\ Regrant(Custom(permissions))

\* update of roles.service.ts: global roles cannot be changed.
EditRole ==
  /\ granted.role = "custom"
  /\ \E permissions \in CustomPermissions : Regrant(Custom(permissions))

Pass ==
  /\ age' = IF SignedIn /\ ~Expired THEN age + 1 ELSE age
  /\ recent' = <<{granted}>> \o SubSeq(recent, 1, Life)
  /\ UNCHANGED <<granted, token, user, view, grants>>

----------------------------------------------------------------------------
NavigationInit ==
  /\ granted \in {Seeded(role) : role \in DOMAIN SeededRoles} \cup
                 {Custom(permissions) : permissions \in CustomPermissions}
  /\ token = Nobody /\ age = 0 /\ user = Nobody
  /\ view = "auth/login"
  /\ recent = [k \in 1..(Life + 1) |-> {granted}]
  /\ grants = 0

NavigationNext ==
  \/ FollowLink \/ ComeBack \/ LoadRefused
  \/ SignIn \/ SignOut \/ Refresh \/ ForceOut
  \/ AssignRole \/ EditRole \/ Pass

NavigationSpec == NavigationInit /\ [][NavigationNext]_navVars

----------------------------------------------------------------------------
(* Properties.                                                             *)

NavigationTypeOK ==
  /\ granted \in Grant
  /\ {token, user} \subseteq Grant \cup {Nobody}
  /\ view \in AuthPages \cup DOMAIN Routes
  /\ age \in 0..(Life + 1) /\ grants \in 0..MaxGrants
  /\ Len(recent) = Life + 1
  /\ \A k \in DOMAIN recent : recent[k] \subseteq Grant

\* What a page offers works.  A visitor is offered only what is public; a
\* user with a seeded role, whose token says what the browser keeps of the
\* user, is never offered a link whose guard turns them away nor a call the
\* server refuses, on any page links lead to.  Two offers are exceptions of
\* the code: making a booking, which the role of a company's administrator
\* does not permit, and the statistics of the system, which no controller has.
OfferedIsServed ==
  /\ ~SignedIn =>
       /\ \A link \in LinksShown : Destination(link) = link
       /\ \A call \in CallsShown : IsPublic(call)
  /\ SignedIn /\ ~Expired /\ user = token /\ token.role # "custom" =>
       /\ \A link \in LinksShown :
            \/ Destination(link) = link
            \/ link = "bookings/new" /\ token.role = "ADMIN_EMPRESA"
       /\ \A call \in CallsShown :
            \/ IsEndpoint(call) /\ Admits(call, token)
            \/ call = <<"admin", "stats">>

\* A permission that is taken away is gone within the life of one token,
\* however often the browser has refreshed since: a token opens only what the
\* user was granted at some time in the Life periods before now.
RefusedWithinLife ==
  SignedIn /\ ~Expired =>
    \A controller \in DOMAIN Server : \A handler \in DOMAIN Server[controller] :
      Admits(<<controller, handler>>, token) =>
        \E k \in DOMAIN recent : \E grant \in recent[k] :
          Admits(<<controller, handler>>, grant)

=============================================================================
