------------------------- MODULE SurroundingsProofs -------------------------
(***************************************************************************)
(* The parts around the bookings, the sessions and the subscriptions: the  *)
(* life of a permission that was taken away, what pages offer, the live    *)
(* connection, the pages with a password, the reminders, the pages that    *)
(* follow the bookings live and the dates, each for every value of its     *)
(* constants, and then that what is proved of each part holds of their     *)
(* composition (PagesProofs has the other pages).                          *)
(***************************************************************************)
EXTENDS Surroundings, PagesProofs

----------------------------------------------------------------------------
(* How long a permission outlives its removal.                             *)

\* What the history of grants keeps: one set for this period and each of the
\* Life before it, today's grant in the first.
HistoryOK ==
  /\ granted \in Grant
  /\ recent \in Seq(SUBSET Grant) /\ Len(recent) = Life + 1
  /\ granted \in recent[1]

\* A token of some age was granted that many periods ago.
TokenFromHistory == SignedIn /\ ~Expired => token \in recent[age + 1]

LifeInv == HistoryOK /\ age \in Nat /\ TokenFromHistory

LEMMA GrantTypes ==
  /\ \A role \in DOMAIN SeededRoles : Seeded(role) \in Grant
  /\ \A permissions \in CustomPermissions : Custom(permissions) \in Grant
<1>1. ASSUME NEW role \in DOMAIN SeededRoles PROVE Seeded(role) \in Grant
  BY DEF Seeded, SeededRoles, Grant, PermissionNames
<1>2. ASSUME NEW permissions \in CustomPermissions PROVE Custom(permissions) \in Grant
  BY NavigationAssumption DEF Custom, Grant
<1> QED BY <1>1, <1>2

LEMMA InitLife == NavigationInit => LifeInv
<1> SUFFICES ASSUME NavigationInit PROVE LifeInv
  OBVIOUS
<1>1. granted \in Grant
  BY GrantTypes DEF NavigationInit
<1>2. recent = [k \in 1..(Life + 1) |-> {granted}] /\ Life + 1 \in Nat /\ 1 \in 1..(Life + 1)
  BY NavigationAssumption DEF NavigationInit
<1>3. recent \in Seq(SUBSET Grant) /\ Len(recent) = Life + 1 /\ granted \in recent[1]
  BY <1>1, <1>2
<1> QED BY <1>1, <1>3 DEF NavigationInit, LifeInv, HistoryOK, TokenFromHistory, SignedIn

\* A change of the role joins this period's grants.
LEMMA RegrantLife ==
  ASSUME LifeInv, NEW grant \in Grant, Regrant(grant)
  PROVE  LifeInv'
<1>1. granted' = grant /\ recent' = [recent EXCEPT ![1] = @ \cup {grant}]
      /\ age' = age /\ token' = token
  BY DEF Regrant
<1>2. 1 \in DOMAIN recent /\ DOMAIN recent = 1..(Life + 1)
  BY NavigationAssumption DEF LifeInv, HistoryOK
<1>3. recent' \in Seq(SUBSET Grant) /\ Len(recent') = Life + 1
  BY <1>1, <1>2 DEF LifeInv, HistoryOK
<1>4. \A k \in DOMAIN recent : recent[k] \subseteq recent'[k]
  BY <1>1, <1>2
<1>5. granted' \in recent'[1]
  BY <1>1, <1>2
<1>6. SignedIn /\ ~Expired => age + 1 \in DOMAIN recent
  BY <1>2, NavigationAssumption DEF LifeInv, Expired
<1>7. TokenFromHistory'
  BY <1>1, <1>4, <1>6 DEF LifeInv, TokenFromHistory, SignedIn, Expired
<1> QED BY <1>1, <1>3, <1>5, <1>7 DEF LifeInv, HistoryOK

\* A period ends: the history and every token are one period older.
LEMMA PassLife ==
  ASSUME LifeInv, Pass
  PROVE  LifeInv'
<1>1. recent \in Seq(SUBSET Grant) /\ Len(recent) = Life + 1 /\ Life \in Nat
      /\ {granted} \in SUBSET Grant /\ age \in Nat
  BY NavigationAssumption DEF LifeInv, HistoryOK
<1>2. SubSeq(recent, 1, Life) \in Seq(SUBSET Grant) /\ Len(SubSeq(recent, 1, Life)) = Life
      /\ \A k \in 1..Life : SubSeq(recent, 1, Life)[k] = recent[k]
  BY <1>1
<1>3. recent' = <<{granted}>> \o SubSeq(recent, 1, Life)
  BY DEF Pass
<1> DEFINE past == SubSeq(recent, 1, Life)
<1> HIDE DEF past
<1>4. past \in Seq(SUBSET Grant) /\ Len(past) = Life
      /\ (\A k \in 1..Life : past[k] = recent[k])
      /\ recent' = <<{granted}>> \o past
  BY <1>2, <1>3 DEF past
<1>5. recent' \in Seq(SUBSET Grant) /\ Len(recent') = Life + 1
  BY <1>1, <1>4
<1>6. recent'[1] = {granted} /\ \A k \in 1..Life : recent'[k + 1] = past[k]
  BY <1>1, <1>4
<1>7. TokenFromHistory'
  <2> SUFFICES ASSUME SignedIn', ~Expired' PROVE token' \in recent'[age' + 1]
    BY DEF TokenFromHistory
  <2>1. SignedIn /\ ~Expired /\ age' = age + 1
    BY <1>1 DEF Pass, SignedIn, Expired
  <2>2. age' \in 1..Life
    BY <1>1, <2>1 DEF Expired
  <2>3. recent'[age' + 1] = recent[age + 1]
    BY <1>4, <1>6, <2>1, <2>2
  <2> QED BY <2>1, <2>3 DEF LifeInv, TokenFromHistory, Pass
<1>8. age' \in Nat /\ granted' = granted
  BY <1>1 DEF Pass
<1> QED BY <1>5, <1>6, <1>7, <1>8 DEF LifeInv, HistoryOK

LEMMA NextLife == LifeInv /\ [NavigationNext]_navVars => LifeInv'
<1> SUFFICES ASSUME LifeInv, [NavigationNext]_navVars PROVE LifeInv'
  OBVIOUS
<1>1. CASE FollowLink \/ ComeBack \/ LoadRefused
  BY <1>1 DEF FollowLink, ComeBack, LoadRefused, LifeInv, HistoryOK, TokenFromHistory,
              SignedIn, Expired
\* The new token is of this period.
<1>2. CASE SignIn \/ Refresh
  BY <1>2 DEF SignIn, Refresh, Refreshed, LifeInv, HistoryOK, TokenFromHistory,
              SignedIn, Expired
<1>3. CASE SignOut \/ ForceOut
  BY <1>3 DEF SignOut, ForceOut, LifeInv, HistoryOK, TokenFromHistory, SignedIn, Expired
<1>4. CASE AssignRole \/ EditRole
  <2>1. \E grant \in Grant : Regrant(grant)
    BY <1>4, GrantTypes DEF AssignRole, EditRole
  <2> QED BY <2>1, RegrantLife
<1>5. CASE Pass
  BY <1>5, PassLife
<1>6. CASE UNCHANGED navVars
  BY <1>6 DEF navVars, LifeInv, HistoryOK, TokenFromHistory, SignedIn, Expired
<1> QED BY <1>1, <1>2, <1>3, <1>4, <1>5, <1>6 DEF NavigationNext

\* A permission that is taken away is gone within the life of one token,
\* however long that life is and however often the role changes.
THEOREM LifeCorrect == NavigationSpec => []RefusedWithinLife
<1>1. LifeInv => RefusedWithinLife
  <2> SUFFICES ASSUME LifeInv, SignedIn, ~Expired
               PROVE  \E k \in DOMAIN recent : token \in recent[k]
    BY DEF RefusedWithinLife
  <2>1. age + 1 \in DOMAIN recent
    BY NavigationAssumption DEF LifeInv, HistoryOK, Expired
  <2> QED BY <2>1 DEF LifeInv, TokenFromHistory
<1> QED BY <1>1, InitLife, NextLife, PTL DEF NavigationSpec

----------------------------------------------------------------------------
(* What the pages offer.                                                   *)

LEMMA RouteNames ==
  /\ DOMAIN Routes =
       {"dashboard", "notifications", "reports", "audit", "profile",
        "bookings", "bookings/:id", "bookings/new", "bookings/:id/edit",
        "services", "services/new", "services/:id/edit",
        "users", "users/new", "users/:id/edit",
        "settings/general", "settings/branding", "settings/subscription",
        "settings/security",
        "admin/tenants", "admin/tenants/:id", "admin/plans", "admin/reports"}
  /\ DOMAIN AdminRoutes = {"admin/tenants", "admin/tenants/:id", "admin/plans", "admin/reports"}
  /\ DOMAIN SettingsRoutes = {"settings/general", "settings/branding", "settings/subscription",
                              "settings/security"}
  /\ DOMAIN WayBack = {"bookings/:id", "bookings/:id/edit", "services/:id/edit", "users/:id/edit"}
BY DEF Routes, PlainPages, BookingsRoutes, ServicesRoutes, UsersRoutes, SettingsRoutes,
   AdminRoutes, WayBack

LEMMA RouteNeeds ==
  /\ \A p \in PlainPages \cup DOMAIN AdminRoutes \cup {"bookings", "bookings/:id"} : Routes[p] = {}
  /\ \A p \in {"bookings/new", "bookings/:id/edit"} : Routes[p] = {"CREATE_BOOKING"}
  /\ Routes["services"] = {"VIEW_SERVICES"}
  /\ \A p \in {"services/new", "services/:id/edit"} : Routes[p] = {"MANAGE_SERVICES"}
  /\ \A p \in {"users", "users/new", "users/:id/edit"} : Routes[p] = {"MANAGE_USERS"}
  /\ \A p \in DOMAIN SettingsRoutes : Routes[p] = {"MANAGE_SETTINGS"}
BY RouteNames DEF Routes, PlainPages, BookingsRoutes, ServicesRoutes, UsersRoutes,
   SettingsRoutes, AdminRoutes

LEMMA OffersOf ==
  /\ view = "auth/login" => PageOffers = LoginOffers
  /\ view = "auth/register" => PageOffers = RegisterOffers
  /\ view = "auth/forgot-password" => PageOffers = ForgotPasswordOffers
  /\ view = "auth/reset-password" => PageOffers = ResetPasswordOffers
  /\ view = "dashboard" => PageOffers = DashboardOffers
  /\ view = "bookings" => PageOffers = BookingsListOffers
  /\ view = "bookings/:id" => PageOffers = BookingDetailOffers
  /\ view = "bookings/new" => PageOffers = BookingFormOffers(FALSE)
  /\ view = "bookings/:id/edit" => PageOffers = BookingFormOffers(TRUE)
  /\ view = "services" => PageOffers = ServicesListOffers
  /\ view = "services/new" => PageOffers = ServiceFormOffers(FALSE)
  /\ view = "services/:id/edit" => PageOffers = ServiceFormOffers(TRUE)
  /\ view = "users" => PageOffers = UsersListOffers
  /\ view = "users/new" => PageOffers = UserFormOffers(FALSE)
  /\ view = "users/:id/edit" => PageOffers = UserFormOffers(TRUE)
  /\ view = "profile" => PageOffers = ProfileOffers
  /\ view = "notifications" => PageOffers = NotificationsOffers
  /\ view = "reports" => PageOffers = ReportsOffers
  /\ view = "audit" => PageOffers = AuditOffers
  /\ view = "settings/general" => PageOffers = GeneralOffers
  /\ view = "settings/branding" => PageOffers = BrandingOffers
  /\ view = "settings/subscription" => PageOffers = SubscriptionOffers
  /\ view = "settings/security" => PageOffers = SecurityOffers
  /\ view = "admin/tenants" => PageOffers = TenantsListOffers
  /\ view = "admin/tenants/:id" => PageOffers = TenantDetailOffers
  /\ view = "admin/plans" => PageOffers = PlansOffers
  /\ view = "admin/reports" => PageOffers = AdminReportsOffers
BY DEF PageOffers

\* What a page may ask of its user beyond its route: these are linked to only
\* for users of some kind.
EarnedBy(u, p) ==
  /\ p = "reports" => "VIEW_REPORTS" \in u.permissions
  /\ p = "audit" => u.role \in {"ADMIN_EMPRESA", "SUPER_ADMIN"}
  /\ p \in DOMAIN AdminRoutes => u.role = "SUPER_ADMIN"

\* The roles of the seed permit what the seed says.
GenuineGrant(g) == g \in Grant /\ (g.role # "custom" => g.permissions = SeededRoles[g.role])

\* Users are on pages whose guard lets them pass and which some link could
\* lead them to; the others are on the pages for visitors.
NavInv ==
  /\ GenuineGrant(granted)
  /\ token = Nobody \/ GenuineGrant(token)
  /\ user = Nobody \/ GenuineGrant(user)
  /\ age \in 0..(Life + 1) /\ grants \in 0..MaxGrants
  /\ SignedIn => view \in DOMAIN Routes /\ Passes(Routes[view]) /\ EarnedBy(user, view)
  /\ ~SignedIn => view \in AuthPages

\* Only these of the links shown have to be earned.
LEMMA LinksEarned ==
  ASSUME view \in DOMAIN Routes, EarnedBy(user, view), NEW link \in LinksShown
  PROVE  EarnedBy(user, link)
<1> USE RouteNames DEF EarnedBy, Offer, When
<1>1. ASSUME link \in SidebarOffers.links PROVE EarnedBy(user, link)
  BY <1>1 DEF SidebarOffers, MainNavItems, ManagementNavItems, AdminNavItems,
              SuperAdminNavItems, HasPermission, IsAdmin
<1>2. ASSUME link \in HeaderOffers.links PROVE EarnedBy(user, link)
  BY <1>2 DEF HeaderOffers
<1>3. ASSUME link \in PageOffers.links PROVE EarnedBy(user, link)
  <2>1. CASE view \in {"dashboard", "profile", "notifications", "reports", "audit"}
    BY <1>3, <2>1, OffersOf DEF DashboardOffers, ProfileOffers, NotificationsOffers,
       ReportsOffers, AuditOffers
  <2>2. CASE view \in {"bookings", "bookings/:id", "bookings/new", "bookings/:id/edit"}
    BY <1>3, <2>2, OffersOf DEF BookingsListOffers, BookingDetailOffers, BookingFormOffers
  <2>3. CASE view \in {"services", "services/new", "services/:id/edit"}
    BY <1>3, <2>3, OffersOf DEF ServicesListOffers, ServiceFormOffers
  <2>4. CASE view \in {"users", "users/new", "users/:id/edit"}
    BY <1>3, <2>4, OffersOf DEF UsersListOffers, UserFormOffers
  <2>5. CASE view \in DOMAIN SettingsRoutes
    BY <1>3, <2>5, OffersOf DEF GeneralOffers, BrandingOffers, SubscriptionOffers,
       SecurityOffers, SettingsOffers
  <2>6. CASE view \in DOMAIN AdminRoutes
    BY <1>3, <2>6, OffersOf DEF TenantsListOffers, TenantDetailOffers, PlansOffers,
       AdminReportsOffers
  <2> QED BY <2>1, <2>2, <2>3, <2>4, <2>5, <2>6
<1> QED BY <1>1, <1>2, <1>3 DEF LinksShown

\* Where a link leads the user may be.
LEMMA Led ==
  ASSUME NEW link, SignedIn => EarnedBy(user, link)
  PROVE  /\ SignedIn => /\ Destination(link) \in DOMAIN Routes
                        /\ Passes(Routes[Destination(link)])
                        /\ EarnedBy(user, Destination(link))
         /\ ~SignedIn => Destination(link) \in AuthPages
<1>1. /\ "dashboard" \in DOMAIN Routes /\ "dashboard" \notin DOMAIN AdminRoutes
      /\ Routes["dashboard"] = {} /\ "dashboard" \notin {"reports", "audit"}
  BY RouteNames, RouteNeeds DEF PlainPages
<1>2. EarnedBy(user, "dashboard") /\ Passes(Routes["dashboard"])
  BY <1>1 DEF EarnedBy, Passes
<1>3. "auth/login" \in AuthPages
  BY DEF AuthPages
<1>4. CASE SignedIn
  <2>1. Destination(link) = "dashboard"
        \/ (link \in DOMAIN Routes /\ Passes(Routes[link]) /\ Destination(link) = link)
    BY <1>4 DEF Destination
  <2> QED BY <1>1, <1>2, <1>4, <2>1
<1>5. CASE ~SignedIn
  BY <1>3, <1>5 DEF Destination
<1> QED BY <1>4, <1>5

\* A step of the browser along a link keeps everything but the page.
LEMMA LedInv ==
  ASSUME NavInv, NEW link, SignedIn => EarnedBy(user, link), view' = Destination(link),
         UNCHANGED <<granted, token, age, user, recent, grants>>
  PROVE  NavInv'
<1>1. /\ SignedIn => view' \in DOMAIN Routes /\ Passes(Routes[view']) /\ EarnedBy(user, view')
      /\ ~SignedIn => view' \in AuthPages
  BY Led
<1>2. (SignedIn' <=> SignedIn) /\ \A p : Passes(Routes[p])' <=> Passes(Routes[p])
  BY DEF SignedIn, Passes, HasPermission
<1> QED BY <1>1, <1>2 DEF NavInv, SignedIn, Passes, HasPermission

LEMMA SeededGrants ==
  /\ \A role \in DOMAIN SeededRoles : GenuineGrant(Seeded(role)) /\ Seeded(role) # Nobody
  /\ \A permissions \in CustomPermissions :
       GenuineGrant(Custom(permissions)) /\ Custom(permissions) # Nobody
  /\ \A g : GenuineGrant(g) => g # Nobody
<1>1. Nobody.role = "none" /\ DOMAIN SeededRoles = {"SUPER_ADMIN", "ADMIN_EMPRESA", "CLIENTE"}
  BY DEF Nobody, SeededRoles
<1>2. \A g : GenuineGrant(g) => g # Nobody
  BY <1>1 DEF GenuineGrant, Grant
<1>3. ASSUME NEW role \in DOMAIN SeededRoles PROVE GenuineGrant(Seeded(role))
  <2>1. SeededRoles[role] \subseteq PermissionNames
    BY DEF SeededRoles, PermissionNames
  <2> QED BY <2>1 DEF Seeded, GenuineGrant, Grant
<1>4. ASSUME NEW permissions \in CustomPermissions PROVE GenuineGrant(Custom(permissions))
  BY NavigationAssumption DEF Custom, GenuineGrant, Grant
<1> QED BY <1>2, <1>3, <1>4

LEMMA NavStarts == NavigationInit => NavInv
<1> SUFFICES ASSUME NavigationInit PROVE NavInv
  OBVIOUS
<1>1. GenuineGrant(granted)
  BY SeededGrants DEF NavigationInit
<1>2. view = "auth/login" /\ "auth/login" \in AuthPages
  BY DEF NavigationInit, AuthPages
<1> QED BY <1>1, <1>2, NavigationAssumption
        DEF NavInv, NavigationInit, SignedIn

LEMMA RegrantInv ==
  ASSUME NavInv, NEW grant, GenuineGrant(grant), Regrant(grant)
  PROVE  NavInv'
<1>1. granted' = grant /\ grants < MaxGrants /\ grants' = grants + 1
      /\ UNCHANGED <<token, age, user, view>>
  BY DEF Regrant
<1>2. grants' \in 0..MaxGrants
  BY <1>1, NavigationAssumption DEF NavInv
<1> QED BY <1>1, <1>2 DEF NavInv, SignedIn, Passes, HasPermission

LEMMA NavInvKept == NavInv /\ [NavigationNext]_navVars => NavInv'
<1> SUFFICES ASSUME NavInv, [NavigationNext]_navVars PROVE NavInv'
  OBVIOUS
<1>0. Life \in Nat \ {0} /\ MaxGrants \in Nat
  BY NavigationAssumption
<1>1. CASE FollowLink
  <2>1. PICK link \in LinksShown : view' = Destination(link)
    BY <1>1 DEF FollowLink
  <2>2. SignedIn => EarnedBy(user, link)
    BY LinksEarned DEF NavInv
  <2> QED BY <1>1, <2>1, <2>2, LedInv DEF FollowLink
<1>2. CASE ComeBack
  <2>1. PICK link \in LinksFromOutside : view' = Destination(link)
    BY <1>2 DEF ComeBack
  <2>2. EarnedBy(user, link)
    BY RouteNames DEF LinksFromOutside, EarnedBy
  <2> QED BY <1>2, <2>1, <2>2, LedInv DEF ComeBack
<1>3. CASE LoadRefused
  <2> DEFINE link == WayBack[view].to
  <2>1. link \in {"bookings", "services", "users"}
    BY <1>3 DEF LoadRefused, WayBack
  <2>2. EarnedBy(user, link)
    BY <2>1, RouteNames DEF EarnedBy
  <2> QED BY <1>3, <2>2, LedInv DEF LoadRefused
<1>4. CASE SignIn
  <2>1. /\ "dashboard" \in DOMAIN Routes /\ "dashboard" \notin DOMAIN AdminRoutes
        /\ Routes["dashboard"] = {} /\ "dashboard" \notin {"reports", "audit"}
    BY RouteNames, RouteNeeds DEF PlainPages
  <2>2. (view \in DOMAIN Routes /\ Passes(Routes[view]) /\ EarnedBy(user, view))'
    BY <1>4, <2>1 DEF SignIn, Passes, EarnedBy
  <2>3. SignedIn'
    BY <1>4, SeededGrants DEF SignIn, SignedIn, NavInv
  <2> QED BY <1>0, <1>4, <2>2, <2>3 DEF SignIn, NavInv
<1>5. CASE SignOut \/ ForceOut
  <2>1. view' \in AuthPages /\ ~SignedIn'
    BY <1>5 DEF SignOut, ForceOut, AuthPages, SignedIn
  <2> QED BY <1>0, <1>5, <2>1 DEF SignOut, ForceOut, NavInv
<1>6. CASE Refresh
  <2>1. SignedIn /\ SignedIn'
    BY <1>6, SeededGrants DEF Refresh, Refreshed, SignedIn, NavInv
  <2>2. view' = view /\ user' = user /\ granted' = granted /\ grants' = grants
        /\ token' = granted /\ age' = 0
    BY <1>6 DEF Refresh, Refreshed
  <2> QED BY <1>0, <2>1, <2>2 DEF NavInv, Passes, HasPermission
<1>7. CASE AssignRole \/ EditRole
  <2>1. PICK grant : GenuineGrant(grant) /\ Regrant(grant)
    BY <1>7, SeededGrants DEF AssignRole, EditRole
  <2> QED BY <2>1, RegrantInv
<1>8. CASE Pass
  <2>1. age' \in 0..(Life + 1)
    BY <1>0, <1>8 DEF Pass, NavInv, Expired
  <2>2. UNCHANGED <<granted, token, user, view, grants>>
    BY <1>8 DEF Pass
  <2> QED BY <2>1, <2>2 DEF NavInv, SignedIn, Passes, HasPermission
<1>9. CASE UNCHANGED navVars
  BY <1>9 DEF navVars, NavInv, SignedIn, Passes, HasPermission
<1> QED BY <1>1, <1>2, <1>3, <1>4, <1>5, <1>6, <1>7, <1>8, <1>9 DEF NavigationNext

\* What the users of the seeded roles are permitted.
Standing ==
  /\ user \in Grant /\ user.permissions \subseteq PermissionNames
  /\ user.role \in {"SUPER_ADMIN", "ADMIN_EMPRESA", "CLIENTE"}
  /\ {"VIEW_SERVICES", "VIEW_BOOKINGS"} \subseteq user.permissions
  /\ IsAdmin => {"MANAGE_USERS", "VIEW_USERS", "MANAGE_SERVICES", "MANAGE_BOOKINGS",
                 "VIEW_REPORTS", "MANAGE_SETTINGS", "MANAGE_BRANDING", "MANAGE_ROLES",
                 "VIEW_AUDIT"} \subseteq user.permissions
  /\ user.role # "ADMIN_EMPRESA" => "CREATE_BOOKING" \in user.permissions
  /\ ~IsAdmin => user.permissions = {"VIEW_SERVICES", "CREATE_BOOKING", "VIEW_BOOKINGS"}

LEMMA SeededStanding ==
  ASSUME GenuineGrant(user), user.role # "custom"
  PROVE  Standing
<1>1. user.role \in {"SUPER_ADMIN", "ADMIN_EMPRESA", "CLIENTE"}
      /\ user.permissions = SeededRoles[user.role] /\ user \in Grant
  BY DEF GenuineGrant, Grant, SeededRoles
<1>2. CASE user.role = "SUPER_ADMIN"
  BY <1>1, <1>2 DEF SeededRoles, PermissionNames, Standing, IsAdmin
<1>3. CASE user.role = "ADMIN_EMPRESA"
  BY <1>1, <1>3 DEF SeededRoles, PermissionNames, Standing, IsAdmin
<1>4. CASE user.role = "CLIENTE"
  BY <1>1, <1>4 DEF SeededRoles, PermissionNames, Standing, IsAdmin
<1> QED BY <1>1, <1>2, <1>3, <1>4

\* The pages only some may see, and what these may do.
OnThisPage ==
  /\ view \in {"services/new", "services/:id/edit", "users", "users/new", "users/:id/edit",
               "reports", "audit"} \cup DOMAIN SettingsRoutes \cup DOMAIN AdminRoutes => IsAdmin
  /\ view \in DOMAIN AdminRoutes => user.role = "SUPER_ADMIN"
  /\ view \in {"bookings/new", "bookings/:id/edit"} => "CREATE_BOOKING" \in user.permissions

LEMMA PageReached ==
  ASSUME Standing, view \in DOMAIN Routes, Passes(Routes[view]), EarnedBy(user, view)
  PROVE  OnThisPage
<1>1. ASSUME view \in DOMAIN AdminRoutes PROVE user.role = "SUPER_ADMIN"
  BY <1>1 DEF EarnedBy
<1>2. ASSUME view \in {"bookings/new", "bookings/:id/edit"} PROVE "CREATE_BOOKING" \in user.permissions
  BY <1>2, RouteNeeds DEF Passes, HasPermission
<1>3. ASSUME view \in {"services/new", "services/:id/edit"} PROVE IsAdmin
  BY <1>3, RouteNeeds DEF Passes, HasPermission, Standing
<1>4. ASSUME view \in {"users", "users/new", "users/:id/edit"} PROVE IsAdmin
  BY <1>4, RouteNeeds DEF Passes, HasPermission, Standing
<1>5. ASSUME view \in DOMAIN SettingsRoutes PROVE IsAdmin
  BY <1>5, RouteNeeds DEF Passes, HasPermission, Standing
<1>6. ASSUME view \in {"reports", "audit"} PROVE IsAdmin
  BY <1>6 DEF EarnedBy, Standing, IsAdmin
<1> QED BY <1>1, <1>2, <1>3, <1>4, <1>5, <1>6 DEF OnThisPage, IsAdmin

\* A link whose guard lets the user pass.
Works(link) == link \in DOMAIN Routes /\ Passes(Routes[link])

LEMMA LinksWork ==
  ASSUME Standing
  PROVE  /\ \A link \in {"dashboard", "notifications", "reports", "audit", "profile", "bookings",
                         "bookings/:id", "services"} \cup DOMAIN AdminRoutes : Works(link)
         /\ user.role # "ADMIN_EMPRESA" => Works("bookings/new")
         /\ HasPermission("MANAGE_SERVICES") => Works("services/new") /\ Works("services/:id/edit")
         /\ HasPermission("MANAGE_USERS") =>
              Works("users") /\ Works("users/new") /\ Works("users/:id/edit")
         /\ IsAdmin => \A link \in DOMAIN SettingsRoutes : Works(link)
<1> USE DEF Works, Passes, HasPermission
<1>1. \A link \in {"dashboard", "notifications", "reports", "audit", "profile", "bookings",
                   "bookings/:id"} \cup DOMAIN AdminRoutes : Works(link)
  BY RouteNames, RouteNeeds DEF PlainPages
<1>2. Works("services")
  BY RouteNames, RouteNeeds DEF Standing
<1>3. user.role # "ADMIN_EMPRESA" => Works("bookings/new")
  BY RouteNames, RouteNeeds DEF Standing
<1>4. HasPermission("MANAGE_SERVICES") => Works("services/new") /\ Works("services/:id/edit")
  BY RouteNames, RouteNeeds
<1>5. HasPermission("MANAGE_USERS") =>
        Works("users") /\ Works("users/new") /\ Works("users/:id/edit")
  BY RouteNames, RouteNeeds
<1>6. IsAdmin => \A link \in DOMAIN SettingsRoutes : Works(link)
  BY RouteNames, RouteNeeds DEF Standing
<1> HIDE DEF Works, Passes, HasPermission
<1> QED BY <1>1, <1>2, <1>3, <1>4, <1>5, <1>6

LEMMA ShownLinksWork ==
  ASSUME Standing, view \in DOMAIN Routes, OnThisPage, NEW link \in LinksShown
  PROVE  Works(link) \/ (link = "bookings/new" /\ user.role = "ADMIN_EMPRESA")
<1> USE RouteNames, LinksWork DEF Offer, When
<1>0. IsAdmin => HasPermission("MANAGE_SERVICES") /\ HasPermission("MANAGE_USERS")
  BY DEF Standing, HasPermission
<1>1. ASSUME link \in SidebarOffers.links PROVE Works(link)
  BY <1>1 DEF SidebarOffers, MainNavItems, ManagementNavItems, AdminNavItems,
              SuperAdminNavItems, IsAdmin
<1>2. ASSUME link \in HeaderOffers.links PROVE Works(link)
  BY <1>2 DEF HeaderOffers
<1>3. ASSUME link \in PageOffers.links
      PROVE  Works(link) \/ (link = "bookings/new" /\ user.role = "ADMIN_EMPRESA")
  <2>1. CASE view \in {"dashboard", "profile", "notifications", "reports", "audit"}
    BY <1>3, <2>1, OffersOf DEF DashboardOffers, ProfileOffers, NotificationsOffers,
       ReportsOffers, AuditOffers, Standing
  <2>2. CASE view \in {"bookings", "bookings/:id", "bookings/new", "bookings/:id/edit"}
    BY <1>3, <2>2, OffersOf DEF BookingsListOffers, BookingDetailOffers, BookingFormOffers
  <2>3. CASE view \in {"services", "services/new", "services/:id/edit"}
    BY <1>3, <2>3, OffersOf DEF ServicesListOffers, ServiceFormOffers, CanManageServices
  <2>4. CASE view \in {"users", "users/new", "users/:id/edit"}
    BY <1>0, <1>3, <2>4, OffersOf DEF UsersListOffers, UserFormOffers, OnThisPage
  <2>5. CASE view \in DOMAIN SettingsRoutes
    BY <1>3, <2>5, OffersOf DEF GeneralOffers, BrandingOffers, SubscriptionOffers,
       SecurityOffers, SettingsOffers, OnThisPage
  <2>6. CASE view \in DOMAIN AdminRoutes
    BY <1>3, <2>6, OffersOf DEF TenantsListOffers, TenantDetailOffers, PlansOffers,
       AdminReportsOffers
  <2> QED BY <2>1, <2>2, <2>3, <2>4, <2>5, <2>6
<1> QED BY <1>1, <1>2, <1>3 DEF LinksShown

\* A call the server answers this user.
Served(request) == IsEndpoint(request) /\ Admits(request, user)

LEMMA ServedCall ==
  ASSUME NEW c, NEW h, c \in DOMAIN Server, h \in DOMAIN Server[c],
         \/ Server[c][h].public
         \/ Permits(Server[c][h].needs, user)
  PROVE  Served(<<c, h>>)
BY DEF Served, IsEndpoint, Admits, IsPublic

\* What any user may call.
LEMMA AnyonesCalls ==
  ASSUME Standing
  PROVE  /\ \A h \in {"findAll", "countUnread", "markAsRead", "markAllAsRead"} :
              Served(<<"notifications", h>>)
         /\ Served(<<"tenants", "getMyTenant">>)
         /\ \A h \in {"getProfile", "updateProfile", "updateNotificationPreferences", "changePassword"} :
              Served(<<"profile", h>>)
         /\ \A h \in {"getSessions", "revokeSession", "logoutAll"} : Served(<<"auth", h>>)
         /\ \A h \in {"getCurrentSubscription", "createCheckout"} : Served(<<"subscriptions", h>>)
         /\ \A h \in {"findAll", "findOne"} : Served(<<"bookings", h>>) /\ Served(<<"services", h>>)
         /\ \A h \in {"create", "update", "cancel"} : Served(<<"bookings", h>>)
<1> USE DEF Server, Signed, Needs, Permits
<1>1. \A h \in {"findAll", "countUnread", "markAsRead", "markAllAsRead"} :
        Served(<<"notifications", h>>)
  BY ServedCall DEF NotificationsController
<1>2. Served(<<"tenants", "getMyTenant">>)
  BY ServedCall DEF TenantsController
<1>3. \A h \in {"getProfile", "updateProfile", "updateNotificationPreferences", "changePassword"} :
        Served(<<"profile", h>>)
  BY ServedCall DEF ProfileController
<1>4. \A h \in {"getSessions", "revokeSession", "logoutAll"} : Served(<<"auth", h>>)
  BY ServedCall DEF AuthController
<1>5. \A h \in {"getCurrentSubscription", "createCheckout"} : Served(<<"subscriptions", h>>)
  BY ServedCall DEF SubscriptionsController
<1>6. \A h \in {"findAll", "findOne"} : Served(<<"bookings", h>>)
  BY ServedCall DEF BookingsController, ViewBookings, Standing
<1>7. \A h \in {"findAll", "findOne"} : Served(<<"services", h>>)
  BY ServedCall DEF ServicesController, Standing
<1>8. \A h \in {"create", "update", "cancel"} : Served(<<"bookings", h>>)
  <2>1. {"CREATE_BOOKING", "MANAGE_BOOKINGS"} \cap user.permissions # {}
    BY DEF Standing, IsAdmin
  <2> QED BY <2>1, ServedCall DEF BookingsController, WriteBookings
<1> QED BY <1>1, <1>2, <1>3, <1>4, <1>5, <1>6, <1>7, <1>8

\* What an administrator of a company may call.
LEMMA AdminsCalls ==
  ASSUME Standing, IsAdmin
  PROVE  /\ \A h \in {"findAll", "findOne", "create", "update", "remove"} :
              Served(<<"services", h>>) /\ Served(<<"users", h>>)
         /\ Served(<<"roles", "findAll">>)
         /\ Served(<<"tenants", "updateMyTenantSettings">>)
         /\ Served(<<"reports", "getFullReport">>)
         /\ Served(<<"audit", "findAll">>)
<1> USE DEF Server, Needs, Permits, Standing
<1>1. \A h \in {"findAll", "findOne", "create", "update", "remove"} : Served(<<"services", h>>)
  BY ServedCall DEF ServicesController
<1>2. \A h \in {"findAll", "findOne", "create", "update", "remove"} : Served(<<"users", h>>)
  BY ServedCall DEF UsersController, ViewUsers
<1>3. Served(<<"roles", "findAll">>)
  BY ServedCall DEF RolesController, ViewRoles
<1>4. Served(<<"tenants", "updateMyTenantSettings">>)
  BY ServedCall DEF TenantsController
<1>5. Served(<<"reports", "getFullReport">>)
  BY ServedCall DEF ReportsController
<1>6. Served(<<"audit", "findAll">>)
  BY ServedCall DEF AuditController
<1> QED BY <1>1, <1>2, <1>3, <1>4, <1>5, <1>6

LEMMA ManagersCalls ==
  ASSUME Standing, HasPermission("MANAGE_SERVICES")
  PROVE  \A h \in {"update", "remove"} : Served(<<"services", h>>)
BY ServedCall DEF Server, Needs, Permits, HasPermission, ServicesController

LEMMA SuperAdminsCalls ==
  ASSUME Standing, user.role = "SUPER_ADMIN"
  PROVE  \A h \in {"findAll", "findOne", "updateStatus"} : Served(<<"tenants", h>>)
BY ServedCall DEF Server, OfTenants, Needs, Permits, TenantsController

LEMMA ShownCallsServed ==
  ASSUME Standing, view \in DOMAIN Routes, OnThisPage, NEW request \in CallsShown
  PROVE  Served(request) \/ request = <<"admin", "stats">>
<1> USE RouteNames, AnyonesCalls DEF Offer, When
<1>1. ASSUME request \in SidebarOffers.calls \cup HeaderOffers.calls \cup LayoutCalls
      PROVE  Served(request)
  BY <1>1 DEF SidebarOffers, HeaderOffers, LayoutCalls
<1>2. ASSUME request \in PageOffers.calls
      PROVE  Served(request) \/ request = <<"admin", "stats">>
  <2>1. CASE view \in {"dashboard", "profile", "notifications"}
    BY <1>2, <2>1, OffersOf DEF DashboardOffers, ProfileOffers, NotificationsOffers
  <2>2. CASE view \in {"reports", "audit"}
    BY <1>2, <2>2, OffersOf, AdminsCalls DEF ReportsOffers, AuditOffers, OnThisPage
  <2>3. CASE view \in {"bookings", "bookings/:id", "bookings/new", "bookings/:id/edit"}
    BY <1>2, <2>3, OffersOf DEF BookingsListOffers, BookingDetailOffers, BookingFormOffers
  <2>4. CASE view = "services"
    BY <1>2, <2>4, OffersOf, ManagersCalls DEF ServicesListOffers, CanManageServices
  <2>5. CASE view \in {"services/new", "services/:id/edit"}
    BY <1>2, <2>5, OffersOf, AdminsCalls DEF ServiceFormOffers, OnThisPage
  <2>6. CASE view \in {"users", "users/new", "users/:id/edit"}
    BY <1>2, <2>6, OffersOf, AdminsCalls DEF UsersListOffers, UserFormOffers, OnThisPage
  <2>7. CASE view \in DOMAIN SettingsRoutes
    BY <1>2, <2>7, OffersOf, AdminsCalls DEF GeneralOffers, BrandingOffers, SubscriptionOffers,
       SecurityOffers, SettingsOffers, OnThisPage
  <2>8. CASE view \in DOMAIN AdminRoutes
    BY <1>2, <2>8, OffersOf, SuperAdminsCalls DEF TenantsListOffers, TenantDetailOffers, PlansOffers,
       AdminReportsOffers, OnThisPage
  <2> QED BY <2>1, <2>2, <2>3, <2>4, <2>5, <2>6, <2>7, <2>8
<1> QED BY <1>1, <1>2 DEF CallsShown

\* A visitor is offered the pages and the calls that are public.
LEMMA VisitorsOffers ==
  ASSUME ~SignedIn, view \in AuthPages
  PROVE  /\ \A link \in LinksShown : Destination(link) = link
         /\ \A request \in CallsShown : IsPublic(request)
<1>1. view \in {"auth/login", "auth/register", "auth/forgot-password", "auth/reset-password"}
  BY DEF AuthPages
<1>2. LinksShown = PageOffers.links /\ CallsShown = PageOffers.calls
  BY DEF LinksShown, CallsShown, When
<1>3. PageOffers.links \subseteq AuthPages
  BY <1>1, OffersOf DEF LoginOffers, RegisterOffers, ForgotPasswordOffers, ResetPasswordOffers,
     Offer, AuthPages
<1>4. PageOffers.calls \subseteq
        {"auth"} \X {"login", "register", "forgotPassword", "resetPassword"}
  BY <1>1, OffersOf DEF LoginOffers, RegisterOffers, ForgotPasswordOffers, ResetPasswordOffers,
     Offer
<1>5. \A h \in {"login", "register", "forgotPassword", "resetPassword"} : IsPublic(<<"auth", h>>)
  BY DEF IsPublic, Server, AuthController, Open
<1>6. \A link \in AuthPages : Destination(link) = link
  BY DEF Destination
<1> QED BY <1>2, <1>3, <1>4, <1>5, <1>6

LEMMA WorksLeads ==
  ASSUME SignedIn, NEW link, Works(link) PROVE Destination(link) = link
<1>1. link \notin AuthPages
  BY RouteNames DEF Works, AuthPages
<1> QED BY <1>1 DEF Works, Destination

\* What a page offers works: for a visitor what is public, for a user with a
\* seeded role whose token says what the browser keeps of the user every link
\* and every call but two, on any page links lead to and whatever the roles
\* of the tenants permit.
THEOREM OffersServed == NavigationSpec => []OfferedIsServed
<1>1. ASSUME NavInv PROVE OfferedIsServed
  <2>1. ASSUME ~SignedIn
        PROVE  /\ \A link \in LinksShown : Destination(link) = link
               /\ \A request \in CallsShown : IsPublic(request)
    BY <1>1, <2>1, VisitorsOffers DEF NavInv
  <2>2. ASSUME SignedIn, user = token, token.role # "custom"
        PROVE  /\ \A link \in LinksShown :
                    \/ Destination(link) = link
                    \/ link = "bookings/new" /\ token.role = "ADMIN_EMPRESA"
               /\ \A request \in CallsShown :
                    \/ IsEndpoint(request) /\ Admits(request, token)
                    \/ request = <<"admin", "stats">>
    <3>1. Standing
      BY <1>1, <2>2, SeededStanding DEF NavInv, SignedIn
    <3>2. view \in DOMAIN Routes /\ OnThisPage
      BY <1>1, <2>2, <3>1, PageReached DEF NavInv
    <3>3. \A link \in LinksShown :
            Works(link) \/ (link = "bookings/new" /\ user.role = "ADMIN_EMPRESA")
      BY <3>1, <3>2, ShownLinksWork
    <3>4. \A request \in CallsShown : Served(request) \/ request = <<"admin", "stats">>
      BY <3>1, <3>2, ShownCallsServed
    <3> QED BY <2>2, <3>3, <3>4, WorksLeads DEF Served
  <2> QED BY <2>1, <2>2 DEF OfferedIsServed
<1> QED BY <1>1, NavStarts, NavInvKept, PTL DEF NavigationSpec

----------------------------------------------------------------------------
(* The live connection.                                                    *)

\* A socket waits only while it has a reconnection left.
WaitsWithTriesLeft == \A s \in Sockets : life[s] = "waiting" => tries[s] < MaxTries

\* The sockets the service has let go of are dead while connect has let go of
\* none that was trying; the current one was opened for the one who is logged
\* in, as long as the header's logout is the only way out.
Held ==
  /\ \A s \in Sockets : s # socket => life[s] \in {"unused", "dead"}
  /\ socket # NOBODY => life[socket] # "unused"
  /\ \A s \in rooms : s = socket /\ life[s] = "connected"
  /\ connectedUp <=> KeepsSocket
  /\ ~dropped => (socket # NOBODY => account # NOBODY /\ owner[socket] = account)

SocketInv ==
  /\ SocketTypeOK /\ WaitsWithTriesLeft
  /\ layout <=> account # NOBODY
  /\ ~replaced => Held

LEMMA SocketStarts == SocketInit => SocketInv
<1>1. NOBODY \notin Sockets /\ MaxTries \in Nat /\ MaxVisits \in Nat
  BY SocketAssumption
<1>2. ASSUME SocketInit PROVE SocketTypeOK
  <2>1. account \in Accounts \cup {NOBODY} /\ socket \in Sockets \cup {NOBODY} /\ rooms \subseteq Sockets
    BY <1>2 DEF SocketInit
  <2>2. life \in [Sockets -> Lives] /\ owner \in [Sockets -> Accounts \cup {NOBODY}]
    BY <1>2 DEF SocketInit, Lives
  <2>3. tries \in [Sockets -> 0 .. MaxTries] /\ visits \in 0 .. MaxVisits
    BY <1>1, <1>2 DEF SocketInit
  <2>4. {layout, connectedUp, replaced, dropped} \subseteq BOOLEAN
    BY <1>2 DEF SocketInit
  <2> QED BY <2>1, <2>2, <2>3, <2>4 DEF SocketTypeOK
<1>3. ASSUME SocketInit PROVE WaitsWithTriesLeft /\ Held
  BY <1>1, <1>3 DEF SocketInit, WaitsWithTriesLeft, Held, KeepsSocket
<1>4. ASSUME SocketInit PROVE layout <=> account # NOBODY
  BY <1>4 DEF SocketInit
<1> QED BY <1>2, <1>3, <1>4 DEF SocketInv

\* connect keeps the connected socket or opens a new one.
LEMMA ConnectHeld ==
  ASSUME SocketInv, NEW who \in Accounts, Connect(who),
         UNCHANGED <<rooms, connectedUp, visits, dropped>>,
         account' = who, layout' = TRUE,
         account # NOBODY => who = account
  PROVE  SocketInv'
<1>1. NOBODY \notin Sockets /\ NOBODY \notin Accounts /\ MaxTries \in Nat
  BY SocketAssumption
<1>2. CASE KeepsSocket
  <2>1. UNCHANGED <<socket, life, owner, tries, replaced>>
    BY <1>2 DEF Connect
  <2>2. ~replaced /\ ~dropped => owner[socket] = who
    BY <1>1, <1>2, <2>1 DEF SocketInv, Held, KeepsSocket
  <2> QED
    BY <1>1, <1>2, <2>1, <2>2 DEF SocketInv, SocketTypeOK, WaitsWithTriesLeft, Held, KeepsSocket
<1>3. CASE ~KeepsSocket
  <2>1. PICK s \in Fresh :
          /\ socket' = s
          /\ life' = [life EXCEPT ![s] = "connecting"]
          /\ owner' = [owner EXCEPT ![s] = who]
          /\ tries' = [tries EXCEPT ![s] = 0]
          /\ replaced' = (replaced \/ (socket # NOBODY
                                        /\ life[socket] \in {"connecting", "waiting"}))
    BY <1>3 DEF Connect
  <2>2. s \in Sockets /\ life[s] = "unused"
    BY DEF Fresh
  <2>3. SocketTypeOK'
    BY <1>1, <2>1, <2>2 DEF SocketInv, SocketTypeOK, Lives
  <2>4. WaitsWithTriesLeft'
    BY <2>1, <2>2 DEF SocketInv, SocketTypeOK, WaitsWithTriesLeft
  <2>5. ASSUME ~replaced' PROVE Held'
    <3>1. ~replaced /\ Held /\ (socket # NOBODY => life[socket] \notin {"connecting", "waiting"})
      BY <2>1, <2>5 DEF SocketInv
    <3>2. socket \in Sockets \cup {NOBODY} /\ life \in [Sockets -> Lives]
          /\ owner \in [Sockets -> Accounts \cup {NOBODY}]
      BY DEF SocketInv, SocketTypeOK
    <3>3. \A t \in Sockets : life[t] \in {"unused", "dead"}
      BY <1>1, <1>3, <3>1, <3>2 DEF Held, KeepsSocket, Lives
    <3>4. rooms = {} /\ ~connectedUp
      BY <1>1, <1>3, <3>1 DEF Held, KeepsSocket, SocketInv, SocketTypeOK
    <3>5. life'[s] = "connecting" /\ owner'[s] = who
          /\ \A t \in Sockets \ {s} : life'[t] = life[t]
      BY <2>1, <2>2, <3>2
    <3> QED BY <1>1, <2>1, <2>2, <3>3, <3>4, <3>5 DEF Held, KeepsSocket
  <2> QED BY <1>1, <2>3, <2>4, <2>5 DEF SocketInv
<1> QED BY <1>2, <1>3

\* What the client and the gateway do to one socket.
LEMMA SocketStep ==
  ASSUME SocketInv, NEW s \in Sockets,
         Opened(s) \/ Admit(s) \/ Refuse(s) \/ Lose(s) \/ Retry(s)
  PROVE  SocketInv'
<1>1. NOBODY \notin Sockets /\ NOBODY \notin Accounts /\ MaxTries \in Nat
  BY SocketAssumption
<1> USE <1>1 DEF SocketInv, SocketTypeOK, Lives, WaitsWithTriesLeft, Held, KeepsSocket
<1>2. CASE Opened(s) BY <1>2 DEF Opened
<1>3. CASE Admit(s) BY <1>3 DEF Admit
<1>4. CASE Refuse(s) BY <1>4 DEF Refuse
<1>5. CASE Lose(s) BY <1>5 DEF Lose
<1>6. CASE Retry(s) BY <1>6 DEF Retry
<1> QED BY <1>2, <1>3, <1>4, <1>5, <1>6

LEMMA SocketInvKept == SocketInv /\ [SocketNext]_socketVars => SocketInv'
<1> SUFFICES ASSUME SocketInv, [SocketNext]_socketVars PROVE SocketInv'
  OBVIOUS
<1>1. /\ NOBODY \notin Sockets /\ NOBODY \notin Accounts /\ MaxTries \in Nat
      /\ MaxVisits \in Nat /\ 1 \in Sockets
  BY SocketAssumption DEF Sockets
<1>2. CASE OpenApp
  <2>1. account' = account /\ replaced' = FALSE /\ dropped' = FALSE /\ rooms' = {}
        /\ connectedUp' = FALSE /\ tries' = [s \in Sockets |-> 0]
        /\ layout' = (account # NOBODY) /\ visits < MaxVisits /\ visits' = visits + 1
    BY <1>2 DEF OpenApp
  <2>2. account' \in Accounts \cup {NOBODY} /\ rooms' \subseteq Sockets
        /\ tries' \in [Sockets -> 0 .. MaxTries] /\ visits' \in 0 .. MaxVisits
    BY <1>1, <2>1 DEF SocketInv, SocketTypeOK
  <2>3. {layout', connectedUp', replaced', dropped'} \subseteq BOOLEAN
    BY <2>1
  <2>4. CASE account # NOBODY
    <3>1. /\ socket' = 1
          /\ life' = [s \in Sockets |-> IF s = 1 THEN "connecting" ELSE "unused"]
          /\ owner' = [s \in Sockets |-> IF s = 1 THEN account ELSE NOBODY]
      BY <1>2, <2>4 DEF OpenApp
    <3>2. SocketTypeOK' /\ WaitsWithTriesLeft'
      BY <1>1, <2>1, <2>2, <2>3, <3>1 DEF SocketInv, SocketTypeOK, Lives, WaitsWithTriesLeft
    <3>3. Held'
      BY <1>1, <2>1, <2>4, <3>1 DEF Held, KeepsSocket
    <3> QED BY <2>1, <3>2, <3>3 DEF SocketInv
  <2>5. CASE account = NOBODY
    <3>1. /\ socket' = NOBODY
          /\ life' = [s \in Sockets |-> "unused"]
          /\ owner' = [s \in Sockets |-> NOBODY]
      BY <1>2, <2>5 DEF OpenApp
    <3>2. SocketTypeOK' /\ WaitsWithTriesLeft'
      BY <1>1, <2>1, <2>2, <2>3, <3>1 DEF SocketInv, SocketTypeOK, Lives, WaitsWithTriesLeft
    <3>3. Held'
      BY <1>1, <2>1, <2>5, <3>1 DEF Held, KeepsSocket
    <3> QED BY <2>1, <3>2, <3>3 DEF SocketInv
  <2> QED BY <2>4, <2>5
<1>3. ASSUME NEW who \in Accounts, LogIn(who) PROVE SocketInv'
  BY <1>3, ConnectHeld DEF LogIn
<1>4. CASE OpenReports
  <2>1. account \in Accounts /\ layout = TRUE
    BY <1>4 DEF OpenReports, SocketInv, SocketTypeOK
  <2>2. PICK who \in Accounts : who = account
    BY <2>1
  <2> QED BY <1>4, <2>1, <2>2, ConnectHeld DEF OpenReports
<1>5. CASE LogOut
  BY <1>1, <1>5 DEF LogOut, Disconnect, SocketInv, SocketTypeOK, Lives, WaitsWithTriesLeft,
                    Held, KeepsSocket
<1>6. CASE LoseSession
  BY <1>1, <1>6 DEF LoseSession, SocketInv, SocketTypeOK, WaitsWithTriesLeft, Held, KeepsSocket
<1>7. ASSUME NEW s \in Sockets, Opened(s) \/ Admit(s) \/ Refuse(s) \/ Lose(s) \/ Retry(s)
      PROVE  SocketInv'
  BY <1>7, SocketStep
<1>8. CASE UNCHANGED socketVars
  BY <1>8 DEF socketVars, SocketInv, SocketTypeOK, WaitsWithTriesLeft, Held, KeepsSocket
<1> QED BY <1>2, <1>3, <1>4, <1>5, <1>6, <1>7, <1>8 DEF SocketNext

\* However often the app is opened, the user logs in and out, and sockets are
\* lost and retried: unless connect let go of a socket that was still trying,
\* only the current socket receives events, those of the one who is logged in,
\* and the header's dot says whether it is connected.
THEOREM SocketIsOnes == SocketSpec => []OneSocketOfOnesOwn
<1>1. SocketInv => OneSocketOfOnesOwn
  BY SocketAssumption DEF SocketInv, SocketTypeOK, Held, KeepsSocket, OneSocketOfOnesOwn
<1> QED BY <1>1, SocketStarts, SocketInvKept, PTL DEF SocketSpec

----------------------------------------------------------------------------
(* The pages on which a password is typed twice.                           *)

\* No more than all the kinds of characters count.
LEMMA StrengthBounded ==
  \A p : StrengthOf(p) \in 0 .. 100 /\ (MatchesPattern(p) => StrengthOf(p) = 100)
<1> TAKE p
<1>1. Part(p, "long") \in {0, 25} /\ Part(p, "lower") \in {0, 25} /\ Part(p, "upper") \in {0, 25}
      /\ Part(p, "digit") \in {0, 15} /\ Part(p, "special") \in {0, 10}
  BY DEF Part, Weight
<1>2. StrengthOf(p) \in 0 .. 100
  BY <1>1 DEF StrengthOf
<1>3. ASSUME MatchesPattern(p)
      PROVE  /\ Part(p, "long") = 25 /\ Part(p, "lower") = 25 /\ Part(p, "upper") = 25
             /\ Part(p, "digit") = 15 /\ Part(p, "special") = 10
  BY <1>3 DEF MatchesPattern, Part, Weight
<1> QED BY <1>2, <1>3 DEF StrengthOf

\* The group's error is the disagreement of the fields.  The control's own is
\* what its validator says, except where the first field was edited last and
\* the group wrote into the second.
ErrorsOK ==
  /\ groupError <=> password # confirm
  /\ password = confirm /\ (passwordPage = "security" \/ edited # "password") =>
       confirmError = OwnError(confirm)
  /\ passwordPage = "security" => confirmError = OwnError(confirm)

PasswordInv ==
  /\ PasswordTypeOK /\ ErrorsOK
  /\ ~refused
  /\ strength = ShownStrength(password)

LEMMA PasswordStarts == PasswordInit => PasswordInv
<1> SUFFICES ASSUME PasswordInit PROVE PasswordInv
  OBVIOUS
<1>1. PasswordTypeOK
  <2>1. {groupError, sending, refused} \subseteq BOOLEAN
    BY DEF PasswordInit
  <2>2. strength \in 0 .. 100 /\ submits \in 0 .. MaxSubmits
    BY PasswordAssumption DEF PasswordInit
  <2> QED BY <2>1, <2>2 DEF PasswordInit, PasswordTypeOK
<1>2. ErrorsOK /\ ~refused
  BY DEF PasswordInit, ErrorsOK, OwnError
<1>3. StrengthOf({}) = 0
  BY DEF StrengthOf, Part
<1> QED BY <1>1, <1>2, <1>3 DEF PasswordInit, PasswordInv, ShownStrength

LEMMA PasswordInvKept == PasswordInv /\ [PasswordNext]_passwordVars => PasswordInv'
<1> SUFFICES ASSUME PasswordInv, [PasswordNext]_passwordVars PROVE PasswordInv'
  OBVIOUS
<1>0. PasswordTypeOK /\ ErrorsOK /\ ~refused /\ strength = ShownStrength(password)
  BY DEF PasswordInv
<1>1. CASE TypePassword
  <2>1. PICK p \in Passwords :
          /\ password' = p /\ strength' = ShownStrength(p)
          /\ groupError' = (p # confirm)
          /\ confirmError' = IF p # confirm /\ passwordPage # "security"
                             THEN "mismatch" ELSE confirmError
    BY <1>1 DEF TypePassword, MatchValidator
  <2>2. UNCHANGED <<passwordPage, confirm, sending, done, refused, submits>>
        /\ edited' = "password"
    BY <1>1 DEF TypePassword
  <2>3. groupError' \in BOOLEAN
    BY <2>1
  <2>4. strength' \in 0 .. 100
    BY <2>1, StrengthBounded DEF ShownStrength
  <2>5. PasswordTypeOK'
    BY <1>0, <2>1, <2>2, <2>3, <2>4 DEF PasswordTypeOK
  <2>6. ErrorsOK'
    BY <1>0, <2>1, <2>2 DEF ErrorsOK, OwnError
  <2> QED BY <1>0, <2>1, <2>2, <2>5, <2>6 DEF PasswordInv, ShownStrength
<1>2. CASE TypeConfirm
  <2>1. PICK c \in Passwords :
          /\ confirm' = c
          /\ groupError' = (password # c)
          /\ confirmError' = IF password # c /\ passwordPage # "security"
                             THEN "mismatch" ELSE OwnError(c)
    BY <1>2 DEF TypeConfirm, MatchValidator
  <2>2. UNCHANGED <<passwordPage, password, strength, sending, done, refused, submits>>
        /\ edited' = "confirm"
    BY <1>2 DEF TypeConfirm
  <2>3. groupError' \in BOOLEAN
    BY <2>1
  <2>4. PasswordTypeOK'
    BY <1>0, <2>1, <2>2, <2>3 DEF PasswordTypeOK, OwnError
  <2>5. ErrorsOK'
    BY <1>0, <2>1, <2>2 DEF ErrorsOK, OwnError
  <2> QED BY <1>0, <2>1, <2>2, <2>4, <2>5 DEF PasswordInv, ShownStrength
\* A form that is valid is one the server accepts: both have the same pattern.
<1>3. CASE SendPassword
  <2>1. DtoAccepts(password)
    BY <1>3 DEF SendPassword, PasswordValid, MatchesPattern, DtoAccepts
  <2>2. submits' = submits + 1 /\ submits < MaxSubmits /\ sending' = TRUE
        /\ refused' = (refused \/ ~DtoAccepts(password))
        /\ UNCHANGED <<passwordPage, password, confirm, confirmError, groupError, strength,
                       done, edited>>
    BY <1>3 DEF SendPassword
  <2>3. refused' = FALSE
    BY <1>0, <2>1, <2>2
  <2>4. submits' \in 0 .. MaxSubmits
    BY <1>0, <2>2, PasswordAssumption DEF PasswordTypeOK
  <2>5. PasswordTypeOK'
    BY <1>0, <2>2, <2>3, <2>4 DEF PasswordTypeOK
  <2> QED BY <1>0, <2>2, <2>3, <2>5 DEF PasswordInv, ErrorsOK, ShownStrength
<1>4. CASE Saved
  <2>1. sending' = FALSE /\ UNCHANGED <<passwordPage, strength, refused, submits, edited>>
    BY <1>4 DEF Saved
  <2>2. CASE passwordPage = "security"
    <3>1. password' = {} /\ confirm' = {} /\ confirmError' = "required"
          /\ groupError' = FALSE /\ done' = done
      BY <1>4, <2>2 DEF Saved
    <3>2. PasswordTypeOK'
      BY <1>0, <2>1, <3>1 DEF PasswordTypeOK
    <3>3. ErrorsOK'
      BY <2>1, <2>2, <3>1 DEF ErrorsOK, OwnError
    <3> QED BY <1>0, <2>1, <2>2, <3>1, <3>2, <3>3 DEF PasswordInv, ShownStrength
  <2>3. CASE passwordPage # "security"
    <3>1. done' = "saved" /\ UNCHANGED <<password, confirm, confirmError, groupError>>
      BY <1>4, <2>3 DEF Saved
    <3>2. PasswordTypeOK'
      BY <1>0, <2>1, <3>1 DEF PasswordTypeOK
    <3> QED BY <1>0, <2>1, <3>1, <3>2 DEF PasswordInv, ErrorsOK, ShownStrength
  <2> QED BY <2>2, <2>3
<1>5. CASE Failed
  BY <1>0, <1>5 DEF Failed, PasswordInv, PasswordTypeOK, ErrorsOK, ShownStrength
<1>6. CASE UNCHANGED passwordVars
  BY <1>0, <1>6 DEF passwordVars, PasswordInv, PasswordTypeOK, ErrorsOK, ShownStrength
<1> QED BY <1>1, <1>2, <1>3, <1>4, <1>5, <1>6 DEF PasswordNext

\* Whatever passwords are typed, in whatever order: a valid form holds twice
\* the same password, which the server accepts; and with these it is valid,
\* unless the first field was the last to be edited on a page whose group
\* writes into the second.
THEOREM PasswordsAgree == PasswordSpec => []ValidWhenAgreed
<1>1. ASSUME PasswordInv PROVE ValidWhenAgreed
  <2>1. PasswordValid => password = confirm /\ ~refused
    BY <1>1 DEF PasswordInv, ErrorsOK, PasswordValid
  <2>2. ASSUME password = confirm, MatchesPattern(password),
               ~(passwordPage # "security" /\ edited = "password")
        PROVE  PasswordValid
    <3>1. confirmError = OwnError(confirm) /\ ~groupError
      BY <1>1, <2>2 DEF PasswordInv, ErrorsOK
    <3>2. confirm # {}
      BY <2>2 DEF MatchesPattern
    <3> QED BY <2>2, <3>1, <3>2 DEF PasswordValid, OwnError
  <2>3. MatchesPattern(password) /\ passwordPage # "security" => strength = 100
    BY <1>1, StrengthBounded DEF PasswordInv, ShownStrength
  <2> QED BY <2>1, <2>2, <2>3 DEF ValidWhenAgreed
<1> QED BY <1>1, PasswordStarts, PasswordInvKept, PTL DEF PasswordSpec

----------------------------------------------------------------------------
(* The hourly reminders.                                                   *)

\* Products with an hour.
LEMMA HoursAdd ==
  ASSUME NEW n \in Nat
  PROVE  n * Hour \in Nat /\ (n + 1) * Hour = n * Hour + Hour
BY ReminderAssumption

LEMMA HoursGrow ==
  ASSUME NEW m \in Nat, NEW n \in Nat, m < n
  PROVE  m * Hour + Hour <= n * Hour
<1>1. PICK k \in Nat : n = m + 1 + k
  <2>1. n - m - 1 \in Nat /\ n = m + 1 + (n - m - 1)
    OBVIOUS
  <2> QED BY <2>1
<1>2. n * Hour = (m + 1) * Hour + k * Hour /\ k * Hour \in Nat
  BY <1>1, ReminderAssumption
<1> QED BY <1>2, HoursAdd, ReminderAssumption

\* The full hour a time is in.
LEMMA HourOf ==
  ASSUME NEW t \in Nat
  PROVE  /\ t \div Hour \in Nat
         /\ (t \div Hour) * Hour <= t /\ t < (t \div Hour) * Hour + Hour
BY ReminderAssumption

\* A finite set of which no three elements differ has two at most.
LEMMA TwoAtMost ==
  ASSUME NEW S, IsFiniteSet(S), \A x, y, z \in S : x = y \/ y = z \/ x = z
  PROVE  Cardinality(S) <= 2 /\ (Cardinality(S) = 2 => \E x, y \in S : x # y)
<1>1. CASE S = {}
  <2>1. Cardinality(S) = 0
    BY <1>1, FS_EmptySet
  <2> QED BY <2>1
<1>2. CASE S # {}
  <2>1. PICK x \in S : TRUE
    BY <1>2
  <2>2. IsFiniteSet(S \ {x}) /\ Cardinality(S \ {x}) = Cardinality(S) - 1
    BY <2>1, FS_RemoveElement
  <2>3. Cardinality(S) \in Nat
    BY FS_CardinalityType
  <2>4. CASE S \ {x} = {}
    <3>1. Cardinality(S \ {x}) = 0
      BY <2>4, FS_EmptySet
    <3> QED BY <2>2, <2>3, <3>1
  <2>5. CASE S \ {x} # {}
    <3>1. PICK y \in S \ {x} : TRUE
      BY <2>5
    <3>2. Cardinality((S \ {x}) \ {y}) = Cardinality(S \ {x}) - 1
      BY <2>2, <3>1, FS_RemoveElement
    <3>3. (S \ {x}) \ {y} = {}
      BY <2>1, <3>1
    <3>4. Cardinality((S \ {x}) \ {y}) = 0
      BY <3>3, FS_EmptySet
    <3> QED BY <2>1, <2>2, <2>3, <3>1, <3>2, <3>4
  <2> QED BY <2>4, <2>5
<1> QED BY <1>1, <1>2

\* When the next run is due.
NextRun == due * Hour

ClockOK ==
  /\ NextRun - Hour <= clock
  /\ alive => clock <= NextRun + MaxDelay
  /\ ~alive => run = IDLE /\ mails = {}
  /\ run # IDLE => run = NextRun - Hour + lastDelay
  /\ ~slipped => lastDelay = 0

\* A mail is of a run, for a start in the window of that run; and a run that
\* is not the last one was in an earlier hour.
MailsOK ==
  \A m \in mails \cup sent :
    /\ m.start \in Window(m.at)
    /\ m.at = NextRun - Hour + lastDelay \/ m.at <= NextRun - 2 * Hour + MaxDelay
    /\ run # IDLE => m.at <= NextRun - 2 * Hour + MaxDelay

\* Two runs are nearly an hour apart, and an hour or less only if the later
\* one did not come later in its hour.
RunsApart ==
  \A m, n \in mails \cup sent :
    m.at < n.at => n.at - m.at >= Hour - MaxDelay
                   /\ (n.at - m.at <= Hour => repeated)

RunApart ==
  run # IDLE => \A m \in mails \cup sent : run - m.at <= Hour => repeated

\* A booking that was confirmed in time has its mail once the run before its
\* start is over, or that run has still to read it.
Covered ==
  ~disturbed /\ ~slipped /\ status = "CONFIRMED"
    /\ since < start - 2 * Hour /\ NextRun > start - Hour =>
    \/ \E m \in mails \cup sent : m.start = start
    \/ run # IDLE /\ start \in Window(run)

ReminderInv ==
  /\ ReminderTypeOK /\ IsFiniteSet(mails) /\ IsFiniteSet(sent)
  /\ ClockOK /\ MailsOK /\ RunsApart /\ RunApart /\ Covered

\* The numbers the proofs reckon with.
ReminderNumbers ==
  /\ Hour \in Nat \ {0} /\ MaxDelay \in Nat /\ 2 * MaxDelay < Hour
  /\ NextRun \in Nat /\ clock \in Nat /\ start \in Nat /\ since \in Nat
  /\ lastDelay \in Nat /\ lastDelay <= MaxDelay
  /\ IDLE \notin Nat /\ (run # IDLE => run \in Nat /\ run <= clock)
  /\ \A m \in mails \cup sent : m.at \in Nat /\ m.start \in Nat

LEMMA ReminderNumbersOK ==
  ASSUME ReminderInv
  PROVE  ReminderNumbers
<1>1. due \in Nat /\ mails \cup sent \subseteq Mails /\ Starts \subseteq Nat
      /\ MaxDelay \in Nat /\ MaxTime \in Nat
  BY ReminderAssumption DEF ReminderInv, ReminderTypeOK
<1>2. NextRun \in Nat
  BY <1>1, HoursAdd DEF NextRun
<1>3. clock \in Nat /\ start \in Nat /\ since \in Nat /\ lastDelay \in Nat /\ lastDelay <= MaxDelay
      /\ IDLE \notin Nat /\ (run # IDLE => run \in Nat /\ run <= clock)
  BY <1>1 DEF ReminderInv, ReminderTypeOK, IDLE
<1>4. ASSUME NEW m \in mails \cup sent PROVE m.at \in Nat /\ m.start \in Nat
  <2>1. m \in Mails
    BY <1>1
  <2>2. m.at \in 0 .. MaxTime /\ m.start \in Starts
    BY <2>1 DEF Mails
  <2>3. m.at \in Nat
    BY <1>1, <2>2
  <2>4. m.start \in Nat
    BY <1>1, <2>2
  <2> QED BY <2>3, <2>4
<1> QED BY <1>2, <1>3, <1>4, ReminderAssumption DEF ReminderNumbers

LEMMA RemindersStart == ReminderInit => ReminderInv
<1> SUFFICES ASSUME ReminderInit PROVE ReminderInv
  OBVIOUS
<1>1. ReminderTypeOK
  <2>1. {alive, slipped, repeated, disturbed} \subseteq BOOLEAN
    BY DEF ReminderInit
  <2> QED BY <2>1, ReminderAssumption
          DEF ReminderInit, ReminderTypeOK, BookingStatuses, IDLE
<1>2. IsFiniteSet(mails) /\ IsFiniteSet(sent)
  BY FS_EmptySet DEF ReminderInit
<1>3. NextRun = Hour /\ Hour \in Nat /\ MaxDelay \in Nat /\ start \in Nat
  BY HoursAdd, ReminderAssumption DEF ReminderInit, NextRun
<1>4. ClockOK /\ MailsOK /\ RunsApart /\ RunApart
  BY <1>3 DEF ReminderInit, ClockOK, MailsOK, RunsApart, RunApart
<1>5. Covered
  BY <1>3 DEF ReminderInit, Covered
<1> QED BY <1>1, <1>2, <1>4, <1>5 DEF ReminderInv

\* The next run fires an hour after the last one was due, and its delay.
LEMMA FireKept ==
  ASSUME ReminderInv, Fire
  PROVE  ReminderInv'
<1>0. ReminderNumbers
  BY ReminderNumbersOK
<1> USE <1>0 DEF ReminderNumbers
<1>1. /\ alive /\ run = IDLE /\ clock >= NextRun
      /\ run' = clock /\ due' = due + 1 /\ lastDelay' = clock - NextRun
      /\ slipped' = (slipped \/ lastDelay' > lastDelay)
      /\ repeated' = (repeated \/ lastDelay' <= lastDelay)
  BY DEF Fire, NextRun
<1>s. /\ ~slipped' => ~slipped /\ ~(lastDelay' > lastDelay)
      /\ repeated \/ lastDelay' <= lastDelay => repeated'
  BY DEF Fire
<1>2. UNCHANGED <<clock, alive, mails, sent, start, status, since, disturbed, crashes>>
  BY DEF Fire, bookingVars
<1>3. NextRun' = NextRun + Hour
  BY <1>1, HoursAdd DEF NextRun, ReminderInv, ReminderTypeOK
<1>4. clock <= NextRun + MaxDelay
  BY <1>1 DEF ReminderInv, ClockOK
<1>5. lastDelay' \in 0 .. MaxDelay
  BY <1>1, <1>4
<1>6. ReminderTypeOK'
  <2>1. {alive', slipped', repeated', disturbed'} \subseteq BOOLEAN
    <3>1. slipped' \in BOOLEAN /\ repeated' \in BOOLEAN
      BY <1>1
    <3> QED BY <1>2, <3>1 DEF ReminderInv, ReminderTypeOK
  <2> QED BY <1>1, <1>2, <1>5, <2>1 DEF ReminderInv, ReminderTypeOK
<1>7. ClockOK'
  BY <1>1, <1>s, <1>2, <1>3, <1>4 DEF ReminderInv, ClockOK
<1>8. \A m \in mails \cup sent : m.at <= NextRun - Hour + MaxDelay
  BY DEF ReminderInv, MailsOK
<1>9. MailsOK'
  BY <1>1, <1>2, <1>3, <1>8 DEF ReminderInv, MailsOK
<1>10. RunsApart'
  BY <1>1, <1>s, <1>2 DEF ReminderInv, RunsApart
<1>11. RunApart'
  <2> SUFFICES ASSUME NEW m \in mails \cup sent, clock - m.at <= Hour PROVE repeated'
    BY <1>1, <1>2 DEF RunApart
  <2>1. m.at = NextRun - Hour + lastDelay
    BY <1>1 DEF ReminderInv, MailsOK
  <2> QED BY <1>1, <1>s, <2>1
<1>12. Covered'
  <2> SUFFICES ASSUME ~disturbed, ~slipped', status = "CONFIRMED",
                      since < start - 2 * Hour, NextRun' > start - Hour
               PROVE  (\E m \in mails \cup sent : m.start = start) \/ start \in Window(clock)
    BY <1>1, <1>2 DEF Covered
  <2>1. ~slipped /\ lastDelay = 0 /\ clock = NextRun
    BY <1>1, <1>s DEF ReminderInv, ClockOK
  <2>2. CASE NextRun > start - Hour
    BY <1>1, <2>1, <2>2 DEF ReminderInv, Covered
  <2>3. CASE NextRun <= start - Hour
    BY <1>3, <2>1, <2>3 DEF Window
  <2> QED BY <2>2, <2>3
<1> QED BY <1>2, <1>6, <1>7, <1>9, <1>10, <1>11, <1>12 DEF ReminderInv

\* What a run reads, it mails.
LEMMA ReadKept ==
  ASSUME ReminderInv, Read
  PROVE  ReminderInv'
<1>0. ReminderNumbers
  BY ReminderNumbersOK
<1> USE <1>0 DEF ReminderNumbers
<1> DEFINE mail == [at |-> run, start |-> start]
<1>1. run # IDLE /\ run' = IDLE
      /\ mails' = IF status = "CONFIRMED" /\ start \in Window(run) THEN mails \cup {mail} ELSE mails
  BY DEF Read
<1>2. UNCHANGED <<clock, alive, due, sent, start, status, since, lastDelay, slipped, repeated,
                  disturbed, crashes>>
  BY DEF Read, bookingVars
<1>3. NextRun' = NextRun /\ run = NextRun - Hour + lastDelay
  BY <1>1, <1>2 DEF NextRun, ReminderInv, ClockOK
<1>4. mail.at = run /\ mail.start = start /\ mail \in Mails
  BY <1>1, ReminderAssumption DEF ReminderInv, ReminderTypeOK, Mails
<1>5. mails \subseteq mails' /\ \A m \in mails' \ mails : m = mail /\ start \in Window(run)
  BY <1>1
<1>6. ReminderTypeOK'
  BY <1>1, <1>2, <1>4 DEF ReminderInv, ReminderTypeOK
<1>7. IsFiniteSet(mails') /\ IsFiniteSet(sent')
  BY <1>1, <1>2, FS_AddElement DEF ReminderInv
<1>8. ClockOK'
  BY <1>1, <1>2, <1>3 DEF ReminderInv, ClockOK
<1> HIDE DEF mail
<1>9. MailsOK'
  BY <1>1, <1>2, <1>3, <1>4, <1>5 DEF ReminderInv, MailsOK
<1>10. RunsApart'
  <2> SUFFICES ASSUME NEW m \in mails' \cup sent, NEW n \in mails' \cup sent, m.at < n.at
               PROVE  n.at - m.at >= Hour - MaxDelay /\ (n.at - m.at <= Hour => repeated)
    BY <1>2 DEF RunsApart
  <2>1. CASE m \in mails \cup sent /\ n \in mails \cup sent
    BY <2>1 DEF ReminderInv, RunsApart
  \* The mail of this run is later than all others.
  <2>2. CASE n = mail /\ m \in mails \cup sent
    BY <1>1, <1>3, <1>4, <2>2 DEF ReminderInv, MailsOK, RunApart
  <2>3. CASE m = mail /\ n \in mails \cup sent
    BY <1>1, <1>3, <1>4, <2>3 DEF ReminderInv, MailsOK
  <2>4. (m \in mails \cup sent \/ m = mail) /\ (n \in mails \cup sent \/ n = mail)
    BY <1>5
  <2>5. ~(m = mail /\ n = mail)
    BY <1>1, <1>4
  <2> QED BY <2>1, <2>2, <2>3, <2>4, <2>5
<1>11. RunApart'
  BY <1>1 DEF RunApart
<1>12. Covered'
  <2> SUFFICES ASSUME ~disturbed, ~slipped, status = "CONFIRMED",
                      since < start - 2 * Hour, NextRun > start - Hour
               PROVE  \E m \in mails' \cup sent : m.start = start
    BY <1>1, <1>2, <1>3 DEF Covered
  <2>1. CASE \E m \in mails \cup sent : m.start = start
    BY <1>5, <2>1
  <2>2. CASE start \in Window(run)
    BY <1>1, <1>4, <2>2
  <2> QED BY <2>1, <2>2 DEF ReminderInv, Covered
<1> QED BY <1>6, <1>7, <1>8, <1>9, <1>10, <1>11, <1>12 DEF ReminderInv

\* A mail that leaves is sent or lost; which mails there are stays the same.
LEMMA MailKept ==
  ASSUME ReminderInv, Mail
  PROVE  ReminderInv'
<1>0. ReminderNumbers
  BY ReminderNumbersOK
<1> USE <1>0 DEF ReminderNumbers
<1>1. PICK m \in mails :
        /\ mails' = mails \ {m}
        /\ \/ sent' = sent \cup {m} /\ disturbed' = disturbed
           \/ disturbed' = TRUE /\ sent' = sent
  BY DEF Mail
<1>2. UNCHANGED <<clock, alive, due, run, start, status, since, lastDelay, slipped, repeated,
                  crashes>>
  BY DEF Mail, bookingVars
<1>3. NextRun' = NextRun
  BY <1>2 DEF NextRun
<1>4. mails' \cup sent' \subseteq mails \cup sent
      /\ (~disturbed' => ~disturbed /\ mails' \cup sent' = mails \cup sent)
  BY <1>1
<1>5. mails' \subseteq Mails /\ sent' \subseteq Mails /\ disturbed' \in BOOLEAN
  BY <1>1 DEF ReminderInv, ReminderTypeOK
<1>6. ReminderTypeOK'
  BY <1>2, <1>5 DEF ReminderInv, ReminderTypeOK
<1>7. IsFiniteSet(mails') /\ IsFiniteSet(sent')
  BY <1>1, FS_AddElement, FS_RemoveElement DEF ReminderInv
<1>8. ClockOK'
  BY <1>1, <1>2, <1>3 DEF ReminderInv, ClockOK
<1>9. MailsOK' /\ RunsApart' /\ RunApart'
  BY <1>2, <1>3, <1>4 DEF ReminderInv, MailsOK, RunsApart, RunApart
<1>10. Covered'
  BY <1>2, <1>3, <1>4 DEF ReminderInv, Covered
<1> QED BY <1>6, <1>7, <1>8, <1>9, <1>10 DEF ReminderInv

\* A crash forgets the run and the mails.
LEMMA CrashKept ==
  ASSUME ReminderInv, Crash
  PROVE  ReminderInv'
<1>0. ReminderNumbers
  BY ReminderNumbersOK
<1> USE <1>0 DEF ReminderNumbers
<1>1. /\ crashes < MaxCrashes /\ crashes' = crashes + 1
      /\ alive' = FALSE /\ run' = IDLE /\ mails' = {}
      /\ disturbed' = (disturbed \/ run # IDLE \/ mails # {})
      /\ UNCHANGED <<clock, due, sent, start, status, since, lastDelay, slipped, repeated>>
  BY DEF Crash, bookingVars
<1>2. disturbed' \in BOOLEAN /\ (~disturbed' => ~disturbed /\ run = IDLE /\ mails = {})
  BY <1>1
<1>3. NextRun' = NextRun
  BY <1>1 DEF NextRun
<1>4. ReminderTypeOK'
  <2>1. crashes' \in 0 .. MaxCrashes /\ run' \in {IDLE} \cup 0 .. clock'
    BY <1>1, ReminderAssumption DEF ReminderInv, ReminderTypeOK
  <2> QED BY <1>1, <1>2, <2>1 DEF ReminderInv, ReminderTypeOK
<1>5. IsFiniteSet(mails') /\ IsFiniteSet(sent')
  BY <1>1, FS_EmptySet DEF ReminderInv
<1>6. ClockOK'
  BY <1>1, <1>3 DEF ReminderInv, ClockOK
<1>7. MailsOK' /\ RunsApart' /\ RunApart'
  BY <1>1, <1>3 DEF ReminderInv, MailsOK, RunsApart, RunApart
<1>8. Covered'
  BY <1>1, <1>2, <1>3 DEF ReminderInv, Covered
<1> QED BY <1>4, <1>5, <1>6, <1>7, <1>8 DEF ReminderInv

\* After a restart the next run is at the next full hour, which is never
\* before the one that was due.
LEMMA RestartKept ==
  ASSUME ReminderInv, Restart
  PROVE  ReminderInv'
<1>0. ReminderNumbers
  BY ReminderNumbersOK
<1> USE <1>0 DEF ReminderNumbers
<1>1. /\ alive' = TRUE /\ due' = (clock \div Hour) + 1
      /\ disturbed' = (disturbed \/ due' # due)
      /\ UNCHANGED <<clock, run, mails, sent, start, status, since, lastDelay, slipped,
                     repeated, crashes>>
  BY DEF Restart, bookingVars
<1>2. run = IDLE /\ mails = {}
  BY DEF Restart, ReminderInv, ClockOK
<1> DEFINE h == clock \div Hour
<1>3. h \in Nat /\ h * Hour <= clock /\ clock < h * Hour + Hour
  BY HourOf
<1>4. due \in Nat /\ due' = h + 1
  BY <1>1 DEF ReminderInv, ReminderTypeOK
<1> HIDE DEF h
<1>5. NextRun' = h * Hour + Hour /\ h * Hour \in Nat
  BY <1>3, <1>4, HoursAdd DEF NextRun
<1>6. NextRun' = NextRun \/ NextRun' >= NextRun + Hour
  <2>1. CASE due' = due
    BY <2>1 DEF NextRun
  <2>2. CASE due < due'
    BY <1>3, <1>4, <2>2, HoursGrow DEF NextRun
  <2>3. CASE due' < due
    <3>1. NextRun' + Hour <= NextRun
      BY <1>3, <1>4, <2>3, HoursGrow DEF NextRun
    <3> QED BY <1>3, <1>5, <3>1 DEF ReminderInv, ClockOK
  <2> QED BY <1>3, <1>4, <2>1, <2>2, <2>3
<1>7. disturbed' \in BOOLEAN /\ (~disturbed' => ~disturbed /\ due' = due)
  BY <1>1
<1>8. ReminderTypeOK'
  BY <1>1, <1>3, <1>4, <1>7 DEF ReminderInv, ReminderTypeOK
<1>9. ClockOK'
  BY <1>1, <1>2, <1>3, <1>5 DEF ReminderInv, ClockOK
<1>10. MailsOK'
  BY <1>1, <1>2, <1>5, <1>6 DEF ReminderInv, MailsOK
<1>11. RunsApart' /\ RunApart'
  BY <1>1, <1>2 DEF ReminderInv, RunsApart, RunApart
<1>12. Covered'
  <2>1. ~disturbed' => NextRun' = NextRun
    BY <1>7 DEF NextRun
  <2> QED BY <1>1, <1>7, <2>1 DEF ReminderInv, Covered
<1> QED BY <1>1, <1>8, <1>9, <1>10, <1>11, <1>12 DEF ReminderInv

\* The clock stands still before it is too late for a run.
LEMMA TickKept ==
  ASSUME ReminderInv, Tick
  PROVE  ReminderInv'
<1>0. ReminderNumbers
  BY ReminderNumbersOK
<1> USE <1>0 DEF ReminderNumbers
<1>1. /\ clock < MaxTime /\ clock' = clock + 1
      /\ alive => clock < NextRun + MaxDelay
      /\ UNCHANGED <<alive, due, run, mails, sent, start, status, since, lastDelay, slipped,
                     repeated, disturbed, crashes>>
  BY DEF Tick, bookingVars, NextRun
<1>2. NextRun' = NextRun
  BY <1>1 DEF NextRun
<1>3. ReminderTypeOK'
  BY <1>1, ReminderAssumption DEF ReminderInv, ReminderTypeOK
<1>4. ClockOK'
  BY <1>1, <1>2 DEF ReminderInv, ClockOK
<1>5. MailsOK' /\ RunsApart' /\ RunApart' /\ Covered'
  BY <1>1, <1>2 DEF ReminderInv, MailsOK, RunsApart, RunApart, Covered
<1> QED BY <1>1, <1>3, <1>4, <1>5 DEF ReminderInv

\* What is later than two hours before a start is no earlier than the run
\* that comes an hour before it.
LEMMA TooLate ==
  ASSUME NEW s \in Nat, NEW h \in Nat, NEW c \in Nat, NEW n \in Nat,
         n - h <= c, c < s - 2 * h
  PROVE  ~(n > s - h)
OBVIOUS

\* A change of the booking is now, and so too late for the runs before.
LEMMA BookingChangeKept ==
  ASSUME ReminderInv, NEW to,
         \/ to \in BookingStatuses /\ SetStatus(to)
         \/ to \in Starts /\ Move(to)
  PROVE  ReminderInv'
<1>0. ReminderNumbers
  BY ReminderNumbersOK
<1> USE <1>0 DEF ReminderNumbers
<1>1. /\ since' = clock /\ start' \in Starts /\ status' \in BookingStatuses
      /\ UNCHANGED <<clock, alive, due, run, mails, sent, lastDelay, slipped, repeated,
                     disturbed, crashes>>
  BY DEF SetStatus, Move, Unmoving, ReminderInv, ReminderTypeOK
<1>2. NextRun' = NextRun /\ start' \in Nat
  BY <1>1, ReminderAssumption DEF NextRun
<1>3. ReminderTypeOK'
  BY <1>1 DEF ReminderInv, ReminderTypeOK
<1>4. ClockOK'
  BY <1>1, <1>2 DEF ReminderInv, ClockOK
<1>5. MailsOK' /\ RunsApart' /\ RunApart'
  BY <1>1, <1>2 DEF ReminderInv, MailsOK, RunsApart, RunApart
<1>6. Covered'
  <2>1. NextRun - Hour <= clock /\ since' = clock
    BY <1>1 DEF ReminderInv, ClockOK
  <2>2. clock < start' - 2 * Hour => ~(NextRun > start' - Hour)
    BY <1>2, <2>1, TooLate
  <2>3. since' < start' - 2 * Hour => ~(NextRun' > start' - Hour)
    BY <1>2, <2>1, <2>2
  <2> QED BY <2>3 DEF Covered
<1> QED BY <1>1, <1>3, <1>4, <1>5, <1>6 DEF ReminderInv

LEMMA ReminderInvKept == ReminderInv /\ [ReminderNext]_reminderVars => ReminderInv'
<1> SUFFICES ASSUME ReminderInv, [ReminderNext]_reminderVars PROVE ReminderInv'
  OBVIOUS
<1>1. CASE UNCHANGED reminderVars
  BY <1>1 DEF reminderVars, ReminderInv, ReminderTypeOK, ClockOK, MailsOK, RunsApart, RunApart,
              Covered, NextRun
<1> QED BY <1>1, FireKept, ReadKept, MailKept, CrashKept, RestartKept, TickKept,
           BookingChangeKept DEF ReminderNext

\* Whatever the length of an hour and the delays of the runs, however often the
\* server crashes and the booking changes: a start is announced twice at most,
\* and only when a run came no later in its hour than the one before; and once
\* at least, unless a run was missed, a mail was lost or a run slipped.
THEOREM RemindersTold == ReminderSpec => []RemindersFollowDelays
<1>1. ASSUME ReminderInv PROVE RemindersFollowDelays
  <2>0. ReminderNumbers
    BY <1>1, ReminderNumbersOK
  <2> USE <2>0 DEF ReminderNumbers
  <2>1. ASSUME NEW s \in Starts
        PROVE  LET told == Cardinality({m \in sent : m.start = s})
               IN  told <= 2 /\ (told = 2 => repeated)
    <3> DEFINE S == {m \in sent : m.start = s}
    <3>1. IsFiniteSet(S)
      BY <1>1, FS_Subset DEF ReminderInv
    <3>2. \A m \in S : m \in sent /\ m.at \in Nat /\ m.start = s /\ s \in Window(m.at)
      BY <1>1 DEF ReminderInv, MailsOK
    \* All lie within the hour that ends an hour before the start.
    <3>3. \A m, n \in S : n.at - m.at <= Hour
      BY <3>2, ReminderAssumption DEF Window
    <3>4. \A m, n \in S : m = n \/ m.at < n.at \/ n.at < m.at
      <4> TAKE m, n \in S
      <4>1. m \in Mails /\ n \in Mails
        BY <1>1 DEF ReminderInv, ReminderTypeOK
      <4>2. m = [at |-> m.at, start |-> m.start] /\ n = [at |-> n.at, start |-> n.start]
        BY <4>1 DEF Mails
      <4>3. m.at = n.at => m = n
        BY <3>2, <4>2
      <4> QED BY <3>2, <4>3
    <3>5. \A m, n \in S : m.at < n.at => n.at - m.at >= Hour - MaxDelay /\ repeated
      BY <1>1, <3>2, <3>3 DEF ReminderInv, RunsApart
    <3> HIDE DEF S
    <3>6. \A x, y, z \in S : x = y \/ y = z \/ x = z
      BY <3>2, <3>3, <3>4, <3>5
    <3>7. Cardinality(S) <= 2 /\ (Cardinality(S) = 2 => \E x, y \in S : x # y)
      BY <3>1, <3>6, TwoAtMost
    <3>8. Cardinality(S) = 2 => repeated
      BY <3>4, <3>5, <3>7
    <3> QED BY <3>7, <3>8 DEF S
  <2>2. /\ status = "CONFIRMED" /\ since < start - 2 * Hour
        /\ alive /\ run = IDLE /\ mails = {}
        /\ due * Hour > start - Hour
        /\ ~disturbed /\ ~slipped
        => \E m \in sent : m.start = start
    BY <1>1 DEF ReminderInv, Covered, NextRun
  <2> QED BY <2>1, <2>2 DEF RemindersFollowDelays
<1> QED BY <1>1, RemindersStart, ReminderInvKept, PTL DEF ReminderSpec

----------------------------------------------------------------------------
(* The pages that follow the bookings live.                                *)

\* Something is on its way that will bring the page what is stored, or make
\* it say that it could not be brought.
NewsPending ==
  \/ unsent # <<>> \/ arriving # <<>>
  \/ \E i \in DOMAIN loads : loads[i] \in {UNREAD, FAILED, committed}

BoardInv ==
  /\ BoardTypeOK
  /\ busy => loads # <<>>
  /\ newest <= committed /\ shown <= newest
  /\ \A i \in DOMAIN loads : loads[i] <= committed
  /\ ~unheard /\ ~failed /\ ~NewsPending => newest = committed

LEMMA BoardStarts == BoardInit => BoardInv
<1> SUFFICES ASSUME BoardInit PROVE BoardInv
  OBVIOUS
<1> USE BoardAssumption DEF NOTHING, UNREAD, FAILED
<1>1. loads \in Seq(0 .. MaxChanges \cup {UNREAD, FAILED}) /\ loads # <<>>
      /\ 1 \in DOMAIN loads /\ loads[1] = UNREAD /\ DOMAIN loads = {1}
  BY DEF BoardInit
<1>2. {online, busy, unheard, failed} \subseteq BOOLEAN
  BY DEF BoardInit
<1>3. BoardTypeOK
  BY <1>1, <1>2 DEF BoardInit, BoardTypeOK
<1>4. NewsPending
  BY <1>1 DEF NewsPending
<1> QED BY <1>1, <1>3, <1>4 DEF BoardInit, BoardInv

\* A change, up to its event.
LEMMA ChangeKept ==
  ASSUME BoardInv, NEW kind \in Changes, Change(kind)
  PROVE  BoardInv'
<1> USE BoardAssumption DEF NOTHING, UNREAD, FAILED
<1>1. /\ committed < MaxChanges /\ committed' = committed + 1
      /\ UNCHANGED <<board, online, arriving, loads, shown, busy, newest, failed, losses>>
  BY DEF Change
<1>2. \/ kind \in Events /\ unsent' = Append(unsent, kind) /\ unheard' = unheard
      \/ unheard' = TRUE /\ unsent' = unsent
  BY DEF Change
<1>3. unsent' \in Seq(Events) /\ unheard' \in BOOLEAN /\ (~unheard' => unsent' # <<>>)
  <2>1. unsent \in Seq(Events) /\ unheard \in BOOLEAN
    BY DEF BoardInv, BoardTypeOK
  <2>2. kind \in Events => Append(unsent, kind) \in Seq(Events) /\ Append(unsent, kind) # <<>>
    BY <2>1, AppendProperties
  <2>3. ASSUME unheard' = TRUE, unsent' = unsent
        PROVE  unsent' \in Seq(Events) /\ unheard' \in BOOLEAN /\ unheard'
    BY <2>1, <2>3
  <2> QED BY <1>2, <2>1, <2>2, <2>3
<1>4. committed' \in 0 .. MaxChanges
  BY <1>1 DEF BoardInv, BoardTypeOK
<1>5. BoardTypeOK'
  BY <1>1, <1>3, <1>4 DEF BoardInv, BoardTypeOK
<1>6. \A i \in DOMAIN loads : loads[i] \in Int /\ loads[i] <= committed
  <2>1. loads \in Seq(0 .. MaxChanges \cup {UNREAD, FAILED})
    BY DEF BoardInv, BoardTypeOK
  <2>2. \A i \in DOMAIN loads : loads[i] \in 0 .. MaxChanges \cup {UNREAD, FAILED}
    BY <2>1
  <2> QED BY <2>2 DEF BoardInv
<1>7. committed \in Int /\ newest \in Int
  BY DEF BoardInv, BoardTypeOK
<1> QED BY <1>1, <1>3, <1>5, <1>6, <1>7 DEF BoardInv, NewsPending

\* The event of a change reaches the page, or the page is not told.
LEMMA EmitKept ==
  ASSUME BoardInv, NEW i \in DOMAIN unsent, Emit(i)
  PROVE  BoardInv'
<1>1. /\ unsent' = RemoveAt(unsent, i)
      /\ UNCHANGED <<board, committed, online, loads, shown, busy, newest, failed, losses>>
  BY DEF Emit
<1>2. unsent \in Seq(Events) /\ unsent[i] \in Events /\ arriving \in Seq(Events)
  BY DEF BoardInv, BoardTypeOK
<1>3. unsent' \in Seq(Events)
  BY <1>1, <1>2, RemoveAtElements
<1>4. arriving' \in Seq(Events) /\ (arriving' = arriving \/ arriving' # <<>>)
  BY <1>2 DEF Emit
<1>5. unheard' \in BOOLEAN
  BY DEF Emit
<1>6. ~unheard' => ~unheard /\ arriving' # <<>>
  <2>1. ~unheard' => ~unheard /\ online /\ ~(board = "dashboard" /\ unsent[i] = "cancelled")
    BY DEF Emit, BoardInv, BoardTypeOK
  <2>2. ~unheard' => unsent[i] \in Listened
    BY <1>2, <2>1 DEF Listened, Events, BoardInv, BoardTypeOK, Boards
  <2>3. Append(arriving, unsent[i]) # <<>>
    BY <1>2, AppendProperties
  <2> QED BY <2>1, <2>2, <2>3 DEF Emit
<1>7. BoardTypeOK'
  BY <1>1, <1>3, <1>4, <1>5 DEF BoardInv, BoardTypeOK
<1> QED BY <1>1, <1>6, <1>7 DEF BoardInv, NewsPending

\* The numbers of the loads, and of what is shown.
LEMMA BoardNumbers ==
  ASSUME BoardInv
  PROVE  /\ committed \in Int /\ newest \in Int /\ shown \in Int
         /\ loads \in Seq(Int) /\ (\A i \in DOMAIN loads : loads[i] \in Int)
<1>1. MaxChanges \in Nat
  BY BoardAssumption
<1>2. committed \in Int /\ newest \in Int /\ shown \in Int
  BY <1>1 DEF BoardInv, BoardTypeOK, NOTHING
<1>3. 0 .. MaxChanges \cup {UNREAD, FAILED} \subseteq Int
  BY <1>1 DEF UNREAD, FAILED
<1>4. loads \in Seq(Int)
  BY <1>3, SeqMonotonic DEF BoardInv, BoardTypeOK
<1> QED BY <1>2, <1>4

LEMMA AnswerBoardKept ==
  ASSUME BoardInv, NEW i \in DOMAIN loads, AnswerBoard(i)
  PROVE  BoardInv'
<1>1. PICK answer \in {committed, FAILED} : loads' = [loads EXCEPT ![i] = answer]
  BY DEF AnswerBoard
<1>2. UNCHANGED <<board, committed, unsent, online, arriving, shown, busy, newest, unheard,
                  failed, losses>>
  BY DEF AnswerBoard
<1> DEFINE ReadValues == 0 .. MaxChanges \cup {UNREAD, FAILED}
<1>3. loads \in Seq(ReadValues) /\ answer \in ReadValues
  BY DEF BoardInv, BoardTypeOK
<1> HIDE DEF ReadValues
<1>4. loads' \in Seq(ReadValues) /\ DOMAIN loads' = DOMAIN loads /\ loads'[i] = answer
      /\ \A j \in DOMAIN loads \ {i} : loads'[j] = loads[j]
  BY <1>1, <1>3
<1>5. BoardTypeOK'
  BY <1>2, <1>4 DEF ReadValues, BoardInv, BoardTypeOK
<1>6. committed \in Nat
  BY BoardAssumption DEF BoardInv, BoardTypeOK
<1>7. answer <= committed
  BY <1>6 DEF FAILED
<1>8. NewsPending'
  BY <1>2, <1>4 DEF NewsPending
<1>9. loads' # <<>>
  BY <1>4
<1> QED BY <1>2, <1>4, <1>5, <1>7, <1>8, <1>9 DEF BoardInv

LEMMA LoseConnectionKept ==
  ASSUME BoardInv, LoseConnection
  PROVE  BoardInv'
<1>1. /\ losses < MaxLosses /\ losses' = losses + 1 /\ online' = FALSE /\ arriving' = <<>>
      /\ unheard' = (unheard \/ arriving # <<>>)
      /\ UNCHANGED <<board, committed, unsent, loads, shown, busy, newest, failed>>
  BY DEF LoseConnection
<1>2. unheard' \in BOOLEAN /\ (~unheard' => ~unheard /\ arriving = <<>>)
  BY <1>1
<1>3. losses' \in 0 .. MaxLosses /\ arriving' \in Seq(Events)
  BY <1>1, BoardAssumption DEF BoardInv, BoardTypeOK
<1>4. BoardTypeOK'
  BY <1>1, <1>2, <1>3 DEF BoardInv, BoardTypeOK
<1> QED BY <1>1, <1>2, <1>4 DEF BoardInv, NewsPending

\* An event begins a load, which will tell the page all it was not told.
LEMMA HearKept ==
  ASSUME BoardInv, Hear
  PROVE  BoardInv'
<1>1. /\ arriving # <<>> /\ arriving' = Tail(arriving)
      /\ loads' = Append(loads, UNREAD) /\ busy' = (busy \/ board = "reports")
      /\ unheard' = FALSE
      /\ UNCHANGED <<board, committed, unsent, online, shown, newest, failed, losses>>
  BY DEF Hear, BeginLoad
<1> DEFINE ReadValues == 0 .. MaxChanges \cup {UNREAD, FAILED}
<1>2. loads \in Seq(ReadValues) /\ UNREAD \in ReadValues /\ arriving \in Seq(Events)
  BY DEF BoardInv, BoardTypeOK
<1> HIDE DEF ReadValues
<1>3. arriving' \in Seq(Events)
  BY <1>1, <1>2, HeadTailProperties
<1>4. loads' \in Seq(ReadValues) /\ loads' # <<>> /\ Len(loads') = Len(loads) + 1
      /\ (\A i \in 1..Len(loads) : loads'[i] = loads[i]) /\ loads'[Len(loads) + 1] = UNREAD
  BY <1>1, <1>2, AppendProperties
<1>5. Len(loads) \in Nat /\ DOMAIN loads = 1..Len(loads) /\ DOMAIN loads' = 1..(Len(loads) + 1)
  BY <1>2, <1>4
<1>6. BoardTypeOK'
  <2>1. busy' \in BOOLEAN
    BY <1>1
  <2> QED BY <1>1, <1>3, <1>4, <2>1 DEF ReadValues, BoardInv, BoardTypeOK
<1>7. NewsPending'
  <2>1. Len(loads) + 1 \in DOMAIN loads'
    BY <1>5
  <2> QED BY <1>4, <2>1 DEF NewsPending
<1>8. \A i \in DOMAIN loads' : loads'[i] <= committed
  <2>1. UNREAD <= committed
    BY BoardAssumption DEF UNREAD, BoardInv, BoardTypeOK
  <2> QED BY <1>4, <1>5, <2>1 DEF BoardInv
<1> QED BY <1>1, <1>4, <1>6, <1>7, <1>8 DEF BoardInv

\* An answer is shown, whichever it is, and the newest remembered.
LEMMA DeliverBoardKept ==
  ASSUME BoardInv, NEW i \in DOMAIN loads, DeliverBoard(i)
  PROVE  BoardInv'
<1>1. /\ loads[i] # UNREAD
      /\ loads' = RemoveAt(loads, i) /\ busy' = FALSE
      /\ shown' = Displayed(loads[i])
      /\ newest' = IF loads[i] > newest THEN loads[i] ELSE newest
      /\ failed' = (failed \/ loads[i] = FAILED)
      /\ UNCHANGED <<board, committed, unsent, online, arriving, unheard, losses>>
  BY DEF DeliverBoard
<1>2. failed' \in BOOLEAN /\ (~failed' => ~failed /\ loads[i] # FAILED)
  BY <1>1
<1> DEFINE ReadValues == 0 .. MaxChanges \cup {UNREAD, FAILED}
<1>3. loads \in Seq(ReadValues) /\ loads[i] \in ReadValues
  BY DEF BoardInv, BoardTypeOK
<1>4. /\ loads' \in Seq(ReadValues)
      /\ \A j \in DOMAIN loads \ {i} : \E k \in DOMAIN loads' : loads'[k] = loads[j]
      /\ \A k \in DOMAIN loads' : \E j \in DOMAIN loads \ {i} : loads'[k] = loads[j]
  <2> HIDE DEF ReadValues
  <2> QED BY <1>1, <1>3, RemoveAtElements, RemoveAtKeeps
<1>5. committed \in Int /\ newest \in Int /\ shown \in Int /\ loads[i] \in Int
      /\ newest <= committed /\ shown <= newest /\ loads[i] <= committed
  BY BoardNumbers DEF BoardInv
<1>6. newest' \in 0 .. MaxChanges \cup {NOTHING} /\ shown' \in 0 .. MaxChanges \cup {NOTHING}
  BY <1>1, <1>3, <1>5, BoardAssumption
     DEF Displayed, BoardInv, BoardTypeOK, NOTHING, UNREAD, FAILED
<1>7. newest' <= committed /\ shown' <= newest' /\ newest <= newest'
      /\ (loads[i] = committed => newest' = committed)
  BY <1>1, <1>5 DEF Displayed
<1>8. BoardTypeOK'
  BY <1>1, <1>2, <1>4, <1>6 DEF BoardInv, BoardTypeOK
<1>9. \A k \in DOMAIN loads' : loads'[k] <= committed
  BY <1>4 DEF BoardInv
<1>10. ASSUME ~unheard, ~failed', ~NewsPending' PROVE newest' = committed
  <2>1. ~failed /\ loads[i] # FAILED
    BY <1>2, <1>10
  <2>2. CASE NewsPending
    <3>1. PICK j \in DOMAIN loads : loads[j] \in {UNREAD, FAILED, committed}
      BY <1>1, <1>10, <2>2 DEF NewsPending
    <3>2. j = i
      BY <1>1, <1>4, <1>10, <3>1 DEF NewsPending
    <3> QED BY <1>1, <1>7, <2>1, <3>1, <3>2
  <2>3. CASE ~NewsPending
    <3>1. newest = committed
      BY <1>10, <2>1, <2>3 DEF BoardInv
    <3>2. newest' \in Int
      BY <1>1, <1>5
    <3> QED BY <1>5, <1>7, <3>1, <3>2
  <2> QED BY <2>2, <2>3
<1> QED BY <1>1, <1>7, <1>8, <1>9, <1>10 DEF BoardInv

LEMMA BoardInvKept == BoardInv /\ [BoardNext]_boardVars => BoardInv'
<1> SUFFICES ASSUME BoardInv, [BoardNext]_boardVars PROVE BoardInv'
  OBVIOUS
<1>1. CASE Reconnect
  BY <1>1 DEF Reconnect, BoardInv, BoardTypeOK, NewsPending
<1>2. CASE UNCHANGED boardVars
  BY <1>2 DEF boardVars, BoardInv, BoardTypeOK, NewsPending
<1> QED BY <1>1, <1>2, ChangeKept, EmitKept, AnswerBoardKept, DeliverBoardKept, HearKept,
           LoseConnectionKept DEF BoardNext

\* However many bookings change, loads overlap and connections are lost: when
\* all has come the page shows what is stored, unless it was not told, a load
\* failed, or an older answer came last.
THEOREM BoardsSettle == BoardSpec => []BoardSettles
<1>1. ASSUME BoardInv, unsent = <<>>, arriving = <<>>, loads = <<>>
      PROVE  (shown = committed \/ unheard \/ failed \/ shown < newest) /\ ~busy
  <2>1. ~NewsPending /\ ~busy
    BY <1>1 DEF NewsPending, BoardInv
  <2>2. shown <= newest /\ shown \in Int /\ newest \in Int
    BY <1>1, BoardNumbers DEF BoardInv
  <2> QED BY <1>1, <2>1, <2>2 DEF BoardInv
<1>2. BoardInv => BoardSettles
  BY <1>1 DEF BoardSettles
<1> QED BY <1>2, BoardStarts, BoardInvKept, PTL DEF BoardSpec

----------------------------------------------------------------------------
(* Days and clocks.                                                        *)

\* A quotient, by its bounds.
LEMMA Quotient ==
  ASSUME NEW D \in Nat \ {0}, NEW x \in Int
  PROVE  /\ x \div D \in Int /\ x % D \in Int
         /\ (x \div D) * D <= x /\ x < (x \div D) * D + D
         /\ x = (x \div D) * D + (x % D)
<1> DEFINE q == x \div D
<1>1. q \in Int /\ x % D \in Int /\ x = D * q + (x % D) /\ 0 <= x % D /\ x % D < D
  BY Z3
<1>2. D * q = q * D /\ q * D \in Int
  BY <1>1
<1> QED BY <1>1, <1>2

LEMMA QuotientIs ==
  ASSUME NEW D \in Nat \ {0}, NEW x \in Int, NEW q \in Int, q * D <= x, x < q * D + D
  PROVE  x \div D = q
<1> DEFINE p == x \div D
<1>1. p \in Int /\ p * D <= x /\ x < p * D + D
  BY Quotient
<1> HIDE DEF p
<1>2. ASSUME NEW m \in Int, NEW n \in Int, m < n PROVE m * D + D <= n * D
  <2>1. n - m - 1 \in Nat /\ (n - m - 1) * D >= 0
    BY <1>2
  <2>2. n * D = m * D + D + (n - m - 1) * D
    BY <2>1
  <2> QED BY <2>1, <2>2
<1>3. ~(p < q)
  BY <1>1, <1>2
<1>4. ~(q < p)
  BY <1>1, <1>2
<1> QED BY <1>1, <1>3, <1>4 DEF p

\* So many days later.
LEMMA DaysLater ==
  ASSUME NEW D \in Nat \ {0}, NEW x \in Int, NEW n \in Int
  PROVE  (x + n * D) \div D = (x \div D) + n
<1> DEFINE q == x \div D
<1>1. q \in Int /\ q * D <= x /\ x < q * D + D
  BY Quotient
<1> HIDE DEF q
<1>2. (q + n) * D = q * D + n * D /\ n * D \in Int /\ q + n \in Int
  BY <1>1
<1>3. (q + n) * D <= x + n * D /\ x + n * D < (q + n) * D + D
  BY <1>1, <1>2
<1> QED BY <1>2, <1>3, QuotientIs DEF q

LEMMA QuotientGrows ==
  ASSUME NEW D \in Nat \ {0}, NEW x \in Int, NEW y \in Int, x <= y
  PROVE  x \div D <= y \div D
<1> DEFINE p == x \div D
           q == y \div D
<1>1. p \in Int /\ q \in Int /\ p * D <= x /\ y < q * D + D
  BY Quotient
<1> HIDE DEF p, q
<1>2. SUFFICES ASSUME q < p PROVE FALSE
  BY <1>1 DEF p, q
<1>3. p - q - 1 \in Nat /\ (p - q - 1) * D >= 0
  BY <1>1, <1>2
<1>4. p * D = q * D + D + (p - q - 1) * D
  BY <1>1
<1> QED BY <1>1, <1>3, <1>4

DateInv == DateTypeOK /\ DOMAIN row = DatedRows

LEMMA DateStarts == DateInit => DateInv
BY DateAssumption DEF DateInit, DateInv, DateTypeOK, Stored

\* The instant a reading of the clocks stands for is an instant.
LEMMA Instants ==
  ASSUME zone \in Zones, NEW t \in Int
  PROVE  Local(t) \in Int /\ FromLocal(t) \in Int
<1>1. zone.before \in Int /\ zone.after \in Int
  BY DateAssumption
<1> QED BY <1>1 DEF Local, Offset, FromLocal

LEMMA FormInstants ==
  ASSUME zone \in Zones, NEW t \in Int
  PROVE  FormInstant(FormDate(t), FormTime(t)) \in Int
<1>1. Day \in Nat \ {0} /\ Local(t) \in Int
  BY DateAssumption, Instants
<1>2. t \div Day \in Int /\ Local(t) % Day \in Int
  BY <1>1
<1>3. (t \div Day) * Day + (Local(t) % Day) \in Int
  BY <1>1, <1>2
<1> QED BY <1>3, Instants DEF FormInstant, FormDate, FormTime, DayOf

LEMMA DateInvKept == DateInv /\ [DateNext]_dateVars => DateInv'
<1> SUFFICES ASSUME DateInv, [DateNext]_dateVars PROVE DateInv'
  OBVIOUS
<1>0. MaxNow \in Nat /\ MaxEdits \in Nat /\ now \in 0 .. MaxNow /\ edits \in 0 .. MaxEdits
  BY DateAssumption DEF DateInv, DateTypeOK
<1>1. CASE NextInstant
  BY <1>0, <1>1 DEF NextInstant, DateInv, DateTypeOK, Stored
<1>2. ASSUME NEW b \in DatedRows, Book(b) PROVE DateInv'
  <2>1. PICK t \in now .. MaxNow :
          row' = [row EXCEPT ![b] = [created |-> now, start |-> t, status |-> "PENDING"]]
    BY <1>2 DEF Book
  <2>2. /\ row'[b].created = now /\ row'[b].start = t /\ row'[b].status = "PENDING"
        /\ \A r \in DatedRows \ {b} : row'[r] = row[r]
        /\ DOMAIN row' = DatedRows
    BY <2>1 DEF DateInv
  <2>3. zone' = zone /\ now' = now /\ edits' = edits
    BY <1>2 DEF Book
  <2> QED BY <1>0, <2>2, <2>3 DEF DateInv, DateTypeOK, Stored, RowStatuses
<1>3. ASSUME NEW b \in DatedRows, SetRowStatus(b) PROVE DateInv'
  <2>1. PICK s \in RowStatuses : row' = [row EXCEPT ![b].status = s]
    BY <1>3 DEF SetRowStatus
  <2>2. b \in Stored
    BY <1>3 DEF SetRowStatus
  <2>3. zone' = zone /\ now' = now /\ edits' = edits
    BY <1>3 DEF SetRowStatus
  <2> QED BY <1>0, <2>1, <2>2, <2>3 DEF DateInv, DateTypeOK, Stored
<1>4. ASSUME NEW b \in DatedRows, SaveUntouched(b) PROVE DateInv'
  <2> DEFINE t == FormInstant(FormDate(row[b].start), FormTime(row[b].start))
  <2>1. b \in Stored /\ t \in Int
    BY <1>4, FormInstants DEF SaveUntouched, DateInv, DateTypeOK
  <2> HIDE DEF t
  <2>2. row' = [row EXCEPT ![b].start = t]
    BY <1>4 DEF SaveUntouched, t
  <2>3. zone' = zone /\ now' = now /\ edits' = edits + 1 /\ edits < MaxEdits
    BY <1>4 DEF SaveUntouched
  <2> QED BY <1>0, <2>1, <2>2, <2>3 DEF DateInv, DateTypeOK, Stored
<1>5. CASE UNCHANGED dateVars
  BY <1>5 DEF dateVars, DateInv, DateTypeOK, Stored
<1> QED BY <1>1, <1>2, <1>3, <1>4, <1>5 DEF DateNext


\* The numbers of a clock.
LEMMA ClockNumbers ==
  ASSUME zone \in Zones
  PROVE  /\ Day \in Nat \ {0} /\ Shift \in Int
         /\ zone.before \in Int /\ zone.after \in Int
         /\ zone.after - zone.before < Day /\ zone.before - zone.after < Day
BY DateAssumption

\* The instant a reading stands for reads so, unless the clock skipped it.
LEMMA ReadBack ==
  ASSUME zone \in Zones, NEW w \in Int
  PROVE  \/ Local(FromLocal(w)) = w
         \/ /\ Shifted(FromLocal(w)) /\ FromLocal(w) = w - zone.before
            /\ FromLocal(w) >= Shift /\ w - zone.after < Shift
<1>1. /\ Day \in Nat \ {0} /\ Shift \in Int
      /\ zone.before \in Int /\ zone.after \in Int
      /\ zone.after - zone.before < Day /\ zone.before - zone.after < Day
  BY ClockNumbers
<1>2. CASE w - zone.before >= Shift /\ w - zone.after >= Shift
  BY <1>1, <1>2 DEF Local, FromLocal, Offset
<1>3. CASE w - zone.before < Shift
  BY <1>1, <1>3 DEF Local, FromLocal, Offset
<1>4. CASE w - zone.before >= Shift /\ w - zone.after < Shift
  BY <1>1, <1>4 DEF FromLocal, Offset, Shifted
<1> QED BY <1>1, <1>2, <1>3, <1>4

----------------------------------------------------------------------------
(* The booking form.                                                       *)

\* What the form saves of a start it shows.
LEMMA SavedAs ==
  ASSUME zone \in Zones, NEW t \in Int, NEW u,
         u = FormInstant(FormDate(t), FormTime(t)), u # t
  PROVE  \/ FromLocal(Local(t)) # t
         \/ /\ DayOf(t) # DayOf(Local(t))
            /\ \/ Local(u) = Local(t) + Day * (DayOf(t) - DayOf(Local(t)))
               \/ Shifted(u)
<1> DEFINE read == Local(t)
           here == DayOf(t)
           there == DayOf(read)
           w == here * Day + (read % Day)
<1>1. Day \in Nat \ {0} /\ read \in Int
  BY Instants, ClockNumbers
<1>2. here \in Int /\ there \in Int /\ read % Day \in Int /\ read = there * Day + (read % Day)
  BY <1>1, Quotient DEF DayOf
<1>3. u = FromLocal(w)
  BY DEF FormInstant, FormDate, FormTime
<1> HIDE DEF read, here, there
<1>4. w \in Int /\ w = read + Day * (here - there) /\ (here = there => w = read)
  BY <1>1, <1>2
<1> HIDE DEF w
<1>5. CASE here = there
  BY <1>3, <1>4, <1>5 DEF read
<1>6. CASE here # there
  <2>1. Local(u) = w \/ Shifted(u)
    BY <1>3, <1>4, ReadBack
  <2> QED BY <1>4, <1>6, <2>1 DEF here, there, read
<1> QED BY <1>5, <1>6

\* A start saved as the form shows it stays, but for the days it may move by
\* and the clock that is put forward or back, whatever the zone and whenever
\* its clock is shifted.
THEOREM StartsKept == DateSpec => UntouchedStartKept
<1> DEFINE Kept(b) == LET t == row[b].start
                          u == row'[b].start
                      IN  u # t =>
                            \/ FromLocal(Local(t)) # t
                            \/ /\ DayOf(t) # DayOf(Local(t))
                               /\ Local(u) = Local(t) + Day * (DayOf(t) - DayOf(Local(t)))
                                    \/ Shifted(u)
<1>1. ASSUME DateInv, [DateNext]_dateVars PROVE [\A b \in Stored : Kept(b)]_dateVars
  <2> SUFFICES ASSUME DateNext, NEW b \in Stored, row'[b].start # row[b].start
               PROVE  Kept(b)
    BY <1>1
  <2>1. zone \in Zones /\ row[b].start \in Int /\ b \in DatedRows /\ DOMAIN row = DatedRows
    BY <1>1 DEF DateInv, DateTypeOK, Stored
  <2>2. PICK c \in DatedRows : Book(c) \/ SetRowStatus(c) \/ SaveUntouched(c)
    BY DEF DateNext, NextInstant
  <2>3. c = b
    BY <2>1, <2>2 DEF Book, SetRowStatus, SaveUntouched
  <2>4. ~Book(c) /\ ~SetRowStatus(c)
    <3>1. ~Book(c)
      BY <2>3 DEF Book, Stored
    <3>2. ASSUME NEW s, row' = [row EXCEPT ![b].status = s] PROVE FALSE
      BY <2>1, <3>2
    <3> QED BY <2>3, <3>1, <3>2 DEF SetRowStatus
  <2>5. row'[b].start = FormInstant(FormDate(row[b].start), FormTime(row[b].start))
    <3> DEFINE t == FormInstant(FormDate(row[b].start), FormTime(row[b].start))
    <3> HIDE DEF t
    <3>1. row' = [row EXCEPT ![b].start = t]
      BY <2>2, <2>3, <2>4 DEF SaveUntouched, t
    <3>2. row'[b].start = t
      BY <2>1, <3>1 DEF Stored
    <3> QED BY <3>2 DEF t
  <2> QED BY <2>1, <2>5, SavedAs
<1> QED BY <1>1, DateStarts, DateInvKept, PTL DEF DateSpec, UntouchedStartKept

----------------------------------------------------------------------------
(* The reports.                                                            *)

\* The window of the trend ends with the days it begins with, or the clock
\* skipped its beginning, and then it begins after the shift.
LEMMA WindowDays ==
  ASSUME zone \in Zones, now \in Int, Offset(TrendStart) = Offset(now),
         NEW n \in Nat, n <= (TrendDays - 1) * Day
  PROVE  /\ TrendStart \in Int
         /\ now <= TrendStart + (TrendDays - 1) * Day
         /\ FromLocal(Local(TrendStart) + n) = TrendStart + n
<1> DEFINE span == (TrendDays - 1) * Day
           w == Local(now) - span
<1>1. /\ Day \in Nat \ {0} /\ Shift \in Int
      /\ zone.before \in Int /\ zone.after \in Int
      /\ zone.after - zone.before < Day /\ zone.before - zone.after < Day
  BY ClockNumbers
<1>2. span \in Nat /\ (-(TrendDays - 1)) * Day = -span
  BY DateAssumption
<1> HIDE DEF span
<1>3. TrendStart = FromLocal(w) /\ w \in Int /\ w = now + Offset(now) - span
  <2>1. TrendStart = FromLocal(Local(now) + (-(TrendDays - 1)) * Day)
    BY DEF TrendStart, AddDays
  <2>2. Local(now) \in Int /\ Local(now) = now + Offset(now)
    BY Instants DEF Local
  <2>3. Local(now) + (-(TrendDays - 1)) * Day = w
    BY <1>2, <2>2
  <2>4. w \in Int /\ w = now + Offset(now) - span
    <3>1. Offset(now) \in Int
      BY <1>1 DEF Offset
    <3> QED BY <1>2, <2>2, <3>1
  <2>5. TrendStart = FromLocal(w)
    <3> HIDE DEF w
    <3> QED BY <2>1, <2>3
  <2> QED BY <2>4, <2>5
<1> HIDE DEF w
<1>4. TrendStart \in Int
  BY <1>3, Instants
<1>5. CASE w - zone.before >= Shift /\ w - zone.after >= Shift
  <2>1. TrendStart = w - zone.after /\ Offset(TrendStart) = zone.after
    BY <1>1, <1>3, <1>5 DEF FromLocal, Offset
  <2>2. TrendStart = now - span
    BY <1>1, <1>2, <1>3, <2>1
  <2>3. FromLocal(Local(TrendStart) + n) = TrendStart + n
    BY <1>1, <1>3, <1>4, <1>5, <2>1 DEF FromLocal, Local
  <2> QED BY <1>2, <1>4, <2>2, <2>3 DEF span
<1>6. CASE w - zone.before < Shift
  <2>1. TrendStart = w - zone.before /\ Offset(TrendStart) = zone.before
    BY <1>1, <1>3, <1>6 DEF FromLocal, Offset
  <2>2. TrendStart = now - span
    BY <1>1, <1>2, <1>3, <2>1
  <2>3. now < Shift \/ zone.before = zone.after
    BY <2>1 DEF Offset
  <2>4. TrendStart + n <= now
    BY <1>2, <2>2 DEF span
  <2>5. FromLocal(Local(TrendStart) + n) = TrendStart + n
    BY <1>1, <1>3, <1>4, <1>6, <2>1, <2>3, <2>4 DEF FromLocal, Local
  <2> QED BY <1>2, <1>4, <2>2, <2>5 DEF span
<1>7. CASE w - zone.before >= Shift /\ w - zone.after < Shift
  <2>1. TrendStart = w - zone.before /\ Offset(TrendStart) = zone.after
    BY <1>1, <1>3, <1>7 DEF FromLocal, Offset
  <2>2. now <= TrendStart + span
    BY <1>1, <1>2, <1>3, <1>7, <2>1
  <2>3. FromLocal(Local(TrendStart) + n) = TrendStart + n
    BY <1>1, <1>3, <1>4, <1>7, <2>1 DEF FromLocal, Local
  <2> QED BY <1>4, <2>2, <2>3 DEF span
<1> QED BY <1>1, <1>3, <1>5, <1>6, <1>7

\* Its points are that many days, one after the other.
LEMMA TrendIsDays ==
  ASSUME zone \in Zones, now \in Int, Offset(TrendStart) = Offset(now)
  PROVE  /\ TrendStart \in Int /\ DayOf(TrendStart) \in Int
         /\ TrendKeys = DayOf(TrendStart) .. (DayOf(TrendStart) + TrendDays - 1)
         /\ DayOf(now) <= DayOf(TrendStart) + TrendDays - 1
<1> DEFINE first == DayOf(TrendStart)
<1>1. Day \in Nat \ {0} /\ TrendDays \in Nat \ {0}
  BY DateAssumption
<1>2. 0 \in Nat /\ 0 <= (TrendDays - 1) * Day
  BY <1>1
<1>3. TrendStart \in Int /\ now <= TrendStart + (TrendDays - 1) * Day
  BY <1>2, WindowDays
<1>4. first \in Int
  BY <1>1, <1>3, Quotient DEF DayOf
<1>5. ASSUME NEW i \in 0 .. TrendDays - 1
      PROVE  DayOf(AddDays(TrendStart, i)) = first + i
  <2>1. i * Day \in Nat /\ i * Day <= (TrendDays - 1) * Day
    <3>1. (TrendDays - 1 - i) * Day >= 0 /\ i * Day >= 0
      BY <1>1
    <3>2. (TrendDays - 1) * Day = i * Day + (TrendDays - 1 - i) * Day
      BY <1>1
    <3> QED BY <1>1, <3>1, <3>2
  <2>2. FromLocal(Local(TrendStart) + i * Day) = TrendStart + i * Day
    BY <2>1, WindowDays
  <2> QED BY <1>1, <1>3, <2>2, DaysLater DEF AddDays, DayOf
<1>6. DayOf(now) <= first + TrendDays - 1
  <2>1. TrendStart + (TrendDays - 1) * Day \in Int
    BY <1>1, <1>3
  <2>2. DayOf(now) <= DayOf(TrendStart + (TrendDays - 1) * Day)
    BY <1>1, <1>3, <2>1, QuotientGrows DEF DayOf
  <2>3. DayOf(TrendStart + (TrendDays - 1) * Day) = first + (TrendDays - 1)
    BY <1>1, <1>3, DaysLater DEF DayOf
  <2> QED BY <1>1, <1>4, <2>2, <2>3
<1> HIDE DEF first
<1>7. TrendKeys = {first + i : i \in 0 .. TrendDays - 1}
  BY <1>5 DEF TrendKeys
<1>8. {first + i : i \in 0 .. TrendDays - 1} = first .. (first + TrendDays - 1)
  <2>1. ASSUME NEW d \in first .. (first + TrendDays - 1)
        PROVE  d - first \in 0 .. TrendDays - 1 /\ d = first + (d - first)
    BY <1>1, <1>4
  <2> QED BY <1>1, <1>4, <2>1
<1> QED BY <1>3, <1>4, <1>6, <1>7, <1>8 DEF first

LEMMA TrendCounts ==
  ASSUME DateTypeOK, Offset(TrendStart) = Offset(now)
  PROVE  /\ Cardinality(TrendKeys) = TrendDays
         /\ UNION {Trend[d] : d \in TrendKeys} = CreatedIn(TrendStart, now)
<1>1. now \in Int /\ zone \in Zones /\ Day \in Nat \ {0} /\ TrendDays \in Nat \ {0}
  BY DateAssumption DEF DateTypeOK
<1> DEFINE first == DayOf(TrendStart)
<1>2. /\ TrendStart \in Int /\ first \in Int
      /\ TrendKeys = first .. (first + TrendDays - 1)
      /\ DayOf(now) <= first + TrendDays - 1
  BY <1>1, TrendIsDays
<1>3. Cardinality(TrendKeys) = TrendDays
  <2>1. first + TrendDays - 1 \in Int
    BY <1>1, <1>2
  <2>2. Cardinality(first .. (first + TrendDays - 1)) =
          IF first > first + TrendDays - 1 THEN 0 ELSE (first + TrendDays - 1) - first + 1
    BY <1>2, <2>1, FS_Interval
  <2> QED BY <1>1, <1>2, <2>2
<1>4. ASSUME NEW b \in CreatedIn(TrendStart, now) PROVE DayOf(row[b].created) \in TrendKeys
  <2>1. row[b].created \in Int /\ TrendStart <= row[b].created /\ row[b].created <= now
    BY DEF CreatedIn, DateTypeOK
  <2>2. /\ first <= DayOf(row[b].created) /\ DayOf(row[b].created) <= DayOf(now)
        /\ DayOf(row[b].created) \in Int /\ DayOf(now) \in Int
    BY <1>1, <1>2, <2>1, Quotient, QuotientGrows DEF DayOf
  <2> QED BY <1>1, <1>2, <2>2
<1>5. UNION {Trend[d] : d \in TrendKeys} = CreatedIn(TrendStart, now)
  BY <1>4 DEF Trend
<1> QED BY <1>3, <1>5

\* The last day of a month begins before the next month does, and what is
\* between reads that day, unless a shift moved either midnight.
LEMMA LastDay ==
  ASSUME zone \in Zones, NEW w \in Int
  PROVE  /\ FromLocal(w - Day) < FromLocal(w)
         /\ \A t \in Int : FromLocal(w - Day) < t /\ t < FromLocal(w) =>
              (w - Day <= Local(t) /\ Local(t) < w) \/ Shifted(t)
<1>1. /\ Day \in Nat \ {0} /\ Shift \in Int
      /\ zone.before \in Int /\ zone.after \in Int
      /\ zone.after - zone.before < Day /\ zone.before - zone.after < Day
  BY ClockNumbers
<1>2. FromLocal(w - Day) < FromLocal(w)
  BY <1>1 DEF FromLocal
<1>3. ASSUME NEW t \in Int, FromLocal(w - Day) < t, t < FromLocal(w)
      PROVE  (w - Day <= Local(t) /\ Local(t) < w) \/ Shifted(t)
  <2>1. CASE t < Shift
    BY <1>1, <1>3, <2>1 DEF FromLocal, Local, Offset
  <2>2. CASE t >= Shift /\ t - Day >= Shift
    BY <1>1, <1>3, <2>2 DEF FromLocal, Local, Offset
  <2>3. CASE t >= Shift /\ t - Day < Shift
    <3>1. zone.before # zone.after => Shifted(t)
      BY <1>1, <2>3 DEF Shifted, Offset
    <3>2. zone.before = zone.after => w - Day <= Local(t) /\ Local(t) < w
      BY <1>1, <1>3 DEF FromLocal, Local, Offset
    <3> QED BY <3>1, <3>2
  <2> QED BY <1>1, <2>1, <2>2, <2>3
<1> QED BY <1>2, <1>3

LEMMA MonthsCount ==
  ASSUME DateTypeOK
  PROVE  /\ CurrentMonth \cap LastMonth = {}
         /\ \A b \in Completed(StartsIn(FirstOf(MonthOf(now) - 1), now))
                       \ (CurrentMonth \cup LastMonth) :
              \/ DayOf(Local(row[b].start)) = MonthOf(now) * Month - 1
              \/ Shifted(row[b].start)
<1> DEFINE m == MonthOf(now)
           w == m * Month * Day
<1>1. now \in Int /\ zone \in Zones /\ Day \in Nat \ {0} /\ Month \in Nat \ {0}
  BY DateAssumption DEF DateTypeOK
<1>2. m \in Int
  <2>1. Local(now) \in Int
    BY <1>1, Instants
  <2>2. Local(now) \div Day \in Int
    BY <1>1, <2>1, Quotient
  <2> QED BY <1>1, <2>2, Quotient DEF MonthOf
<1> HIDE DEF m
<1>3. w \in Int /\ m * Month \in Int /\ (m * Month - 1) * Day = w - Day
      /\ ((m - 1) + 1) * Month * Day - Day = w - Day
  <2> DEFINE n == m * Month
  <2>1. n \in Int /\ (m - 1) + 1 = m
    BY <1>1, <1>2
  <2>2. ASSUME NEW k \in Int PROVE k * Day \in Int /\ (k - 1) * Day = k * Day - Day
    BY <1>1, <2>2
  <2>3. n * Day \in Int /\ (n - 1) * Day = n * Day - Day
    <3> HIDE DEF n
    <3> QED BY <2>1, <2>2
  <2> QED BY <2>1, <2>3
<1>4. FirstOf(m) = FromLocal(w) /\ LastOf(m - 1) = FromLocal(w - Day)
  <2>1. FirstOf(m) = FromLocal(w)
    BY DEF FirstOf
  <2>2. LastOf(m - 1) = FromLocal(((m - 1) + 1) * Month * Day - Day)
    BY DEF LastOf
  <2> HIDE DEF w
  <2> QED BY <1>3, <2>1, <2>2
<1> HIDE DEF w
<1>5. /\ FromLocal(w) \in Int /\ FromLocal(w - Day) \in Int
      /\ FromLocal(w - Day) < FromLocal(w)
  <2>1. w - Day \in Int
    BY <1>1, <1>3
  <2>2. FromLocal(w) \in Int /\ FromLocal(w - Day) \in Int
    BY <1>1, <1>3, <2>1, Instants
  <2>3. FromLocal(w - Day) < FromLocal(w)
    BY <1>1, <1>3, LastDay
  <2> QED BY <2>2, <2>3
<1>6. \A b \in Stored : row[b].start \in Int
  BY DEF DateTypeOK
<1>7. CurrentMonth \cap LastMonth = {}
  BY <1>4, <1>5, <1>6 DEF CurrentMonth, LastMonth, Completed, StartsIn, m
<1>8. ASSUME NEW b \in Completed(StartsIn(FirstOf(m - 1), now)) \ (CurrentMonth \cup LastMonth)
      PROVE  DayOf(Local(row[b].start)) = m * Month - 1 \/ Shifted(row[b].start)
  <2> DEFINE t == row[b].start
  <2>1. /\ t \in Int /\ ~(t >= FromLocal(w)) /\ ~(t <= FromLocal(w - Day))
    BY <1>1, <1>4, <1>5, <1>6
       DEF CurrentMonth, LastMonth, Completed, StartsIn, m
  <2>2. FromLocal(w - Day) < t /\ t < FromLocal(w)
    BY <1>5, <2>1
  <2>3. (w - Day <= Local(t) /\ Local(t) < w) \/ Shifted(t)
    BY <1>1, <1>3, <2>1, <2>2, LastDay
  <2>4. ASSUME w - Day <= Local(t), Local(t) < w PROVE DayOf(Local(t)) = m * Month - 1
    <3>1. Local(t) \in Int
      BY <1>1, <2>1, Instants
    <3>2. m * Month - 1 \in Int /\ (m * Month - 1) * Day <= Local(t)
          /\ Local(t) < (m * Month - 1) * Day + Day
      BY <1>1, <1>3, <2>4, <3>1
    <3> QED BY <1>1, <3>1, <3>2, QuotientIs DEF DayOf
  <2> QED BY <2>3, <2>4
<1> QED BY <1>7, <1>8 DEF m

\* The reports count a booking once, however long days, months and the trend
\* are and whenever the clock is shifted.
THEOREM CountedOnce == DateSpec => []ReportsCountOnce
<1>1. DateInv => ReportsCountOnce
  BY TrendCounts, MonthsCount DEF DateInv, ReportsCountOnce
<1> QED BY <1>1, DateStarts, DateInvKept, PTL DEF DateSpec

----------------------------------------------------------------------------
(* All parts beside one another.                                           *)

LEMMA PartsStart ==
  SurroundingsInit =>
    /\ component \in Components
    /\ BadgeInit /\ ListInit /\ FormInit /\ PasswordInit /\ SocketInit /\ BoardInit
    /\ ReminderInit /\ DateInit /\ NavigationInit
BY DEF SurroundingsInit

\* A step of the whole is a step of one part, which the others sleep through.
LEMMA PartsStep ==
  [SurroundingsNext]_allVars =>
    /\ component' = component
    /\ [BadgeNext]_badgeVars /\ [ListNext]_listVars /\ [FormNext]_formVars
    /\ [PasswordNext]_passwordVars /\ [SocketNext]_socketVars /\ [BoardNext]_boardVars
    /\ [ReminderNext]_reminderVars /\ [DateNext]_dateVars /\ [NavigationNext]_navVars
BY DEF SurroundingsNext, allVars

\* A behaviour of the whole is a behaviour of each part.
THEOREM PartsImplemented ==
  SurroundingsSpec => /\ BadgeSpec /\ ListSpec /\ FormSpec /\ PasswordSpec /\ SocketSpec
                      /\ BoardSpec /\ ReminderSpec /\ DateSpec /\ NavigationSpec
BY PartsStart, PartsStep, PTL
   DEF SurroundingsSpec, BadgeSpec, ListSpec, FormSpec, PasswordSpec, SocketSpec, BoardSpec,
       ReminderSpec, DateSpec, NavigationSpec

LEMMA NavigationTyped == LifeInv /\ NavInv => NavigationTypeOK
<1> SUFFICES ASSUME LifeInv, NavInv PROVE NavigationTypeOK
  OBVIOUS
<1>1. granted \in Grant /\ {token, user} \subseteq Grant \cup {Nobody}
  BY DEF NavInv, GenuineGrant
<1>2. view \in AuthPages \cup DOMAIN Routes
  BY DEF NavInv
<1>3. Len(recent) = Life + 1 /\ \A k \in DOMAIN recent : recent[k] \subseteq Grant
  BY DEF LifeInv, HistoryOK
<1> QED BY <1>1, <1>2, <1>3 DEF NavInv, NavigationTypeOK

PartsInv ==
  /\ component \in Components
  /\ BadgeInv /\ ListInv /\ FormInv /\ PasswordInv /\ SocketInv
  /\ BoardInv /\ ReminderInv /\ DateInv /\ LifeInv /\ NavInv

\* The variables of all parts stay in the ranges their code gives them.
THEOREM PartsTyped == SurroundingsSpec => []SurroundingsTypeOK
<1>1. SurroundingsInit => PartsInv
  BY PartsStart, BadgeStarts, ListStarts, FormStarts, PasswordStarts, SocketStarts, BoardStarts,
     RemindersStart, DateStarts, InitLife, NavStarts DEF PartsInv
<1>2. PartsInv /\ [SurroundingsNext]_allVars => PartsInv'
  BY PartsStep, BadgeInvKept, ListInvKept, FormInvKept, PasswordInvKept, SocketInvKept,
     BoardInvKept, ReminderInvKept, DateInvKept, NextLife, NavInvKept DEF PartsInv
<1>3. PartsInv => SurroundingsTypeOK
  <2>1. BadgeTypeOK /\ ListTypeOK /\ FormTypeOK /\ PasswordTypeOK /\ SocketTypeOK /\ BoardTypeOK
        /\ ReminderTypeOK /\ DateTypeOK /\ NavigationTypeOK /\ component \in Components
        => SurroundingsTypeOK
    BY Zenon DEF SurroundingsTypeOK, Components
  <2>2. BadgeInv /\ ListInv /\ FormInv => BadgeTypeOK /\ ListTypeOK /\ FormTypeOK
    BY DEF BadgeInv, ListInv, FormInv
  <2>3. PasswordInv /\ SocketInv /\ BoardInv => PasswordTypeOK /\ SocketTypeOK /\ BoardTypeOK
    BY DEF PasswordInv, SocketInv, BoardInv
  <2>4. ReminderInv /\ DateInv => ReminderTypeOK /\ DateTypeOK
    BY DEF ReminderInv, DateInv
  <2> QED BY <2>1, <2>2, <2>3, <2>4, NavigationTyped DEF PartsInv
<1> QED BY <1>1, <1>2, <1>3, PTL DEF SurroundingsSpec

\* What is proved of each part holds of the whole.
THEOREM PartsCorrect ==
  SurroundingsSpec => /\ [](/\ ListIsTable /\ OneFlipPerIntent
                            /\ UntouchedKept /\ CreatedOnce /\ HeaderIsStored
                            /\ ShownReadWasRead /\ BadgeWithinClicks
                            /\ ValidWhenAgreed /\ OneSocketOfOnesOwn /\ BoardSettles
                            /\ RemindersFollowDelays /\ ReportsCountOnce
                            /\ OfferedIsServed /\ RefusedWithinLife)
                      /\ UntouchedStartKept
BY PartsImplemented, TableShown, PressedTwiceChangesOnce, StoredFieldsKept, OneRowAVisit,
   HeaderTold, ReadAsShown, BadgeTold, PasswordsAgree, SocketIsOnes, BoardsSettle,
   RemindersTold, CountedOnce, StartsKept, OffersServed, LifeCorrect, PTL

=============================================================================
