----------------------------- MODULE Endpoints -----------------------------
(***************************************************************************)
(* What the controllers of the backend ask of the access token of a call:  *)
(* nothing (@Public), a valid token, or one of the permissions that        *)
(* @RequirePermissions names.  A controller is a record with one field per *)
(* handler; an endpoint is the pair of a controller and a handler.         *)
(*                                                                         *)
(* A grant is what a token says of its user: a role and the permissions of *)
(* that role when the token was made.  A user has one role here, as the    *)
(* user form gives; the code unites the permissions of several.            *)
(***************************************************************************)

Open == [public |-> TRUE, needs |-> {}]

Signed == [public |-> FALSE, needs |-> {}]

Needs(permissions) == [public |-> FALSE, needs |-> permissions]

----------------------------------------------------------------------------
(* The seeded permissions and roles.                                       *)

PermissionNames ==
  {"SUPER_ADMIN", "MANAGE_USERS", "VIEW_USERS", "MANAGE_SERVICES", "VIEW_SERVICES",
   "MANAGE_BOOKINGS", "CREATE_BOOKING", "VIEW_BOOKINGS", "VIEW_REPORTS",
   "MANAGE_SETTINGS", "MANAGE_BRANDING", "MANAGE_ROLES", "MANAGE_TENANTS",
   "VIEW_AUDIT"}

SeededRoles ==
  [SUPER_ADMIN   |-> PermissionNames,
   ADMIN_EMPRESA |-> PermissionNames \ {"SUPER_ADMIN", "CREATE_BOOKING", "MANAGE_TENANTS"},
   CLIENTE       |-> {"VIEW_SERVICES", "CREATE_BOOKING", "VIEW_BOOKINGS"}]

Grant ==
  [role : DOMAIN SeededRoles \cup {"custom"}, permissions : SUBSET PermissionNames]

----------------------------------------------------------------------------
(* The controllers.                                                        *)

AuthController ==
  [login |-> Open, register |-> Open, refresh |-> Open, forgotPassword |-> Open,
   resetPassword |-> Open, logout |-> Signed, logoutAll |-> Signed,
   getSessions |-> Signed, revokeSession |-> Signed, getProfile |-> Signed]

ManageBookings == Needs({"MANAGE_BOOKINGS"})

ViewBookings == Needs({"MANAGE_BOOKINGS", "VIEW_BOOKINGS"})

WriteBookings == Needs({"CREATE_BOOKING", "MANAGE_BOOKINGS"})

BookingsController ==
  [findAll |-> ViewBookings, findByDateRange |-> ViewBookings,
   findMyBookings |-> Needs({"CREATE_BOOKING", "VIEW_BOOKINGS"}),
   findOne |-> Needs({"CREATE_BOOKING", "VIEW_BOOKINGS", "MANAGE_BOOKINGS"}),
   create |-> WriteBookings, update |-> WriteBookings, cancel |-> WriteBookings,
   remove |-> ManageBookings]

ServicesController ==
  [findAllPublic |-> Open,
   findAll |-> Needs({"MANAGE_SERVICES", "VIEW_SERVICES"}),
   findOne |-> Needs({"MANAGE_SERVICES", "VIEW_SERVICES", "CREATE_BOOKING"}),
   create |-> Needs({"MANAGE_SERVICES"}), update |-> Needs({"MANAGE_SERVICES"}),
   remove |-> Needs({"MANAGE_SERVICES"})]

ViewUsers == Needs({"MANAGE_USERS", "VIEW_USERS"})

UsersController ==
  [findAll |-> ViewUsers, findOne |-> ViewUsers,
   create |-> Needs({"MANAGE_USERS"}), update |-> Needs({"MANAGE_USERS"}),
   remove |-> Needs({"MANAGE_USERS"})]

ProfileController ==
  [getProfile |-> Signed, updateProfile |-> Signed, changePassword |-> Signed,
   getNotificationPreferences |-> Signed, updateNotificationPreferences |-> Signed]

ViewRoles == Needs({"MANAGE_ROLES", "MANAGE_USERS"})

RolesController ==
  [findAll |-> ViewRoles, findAllPermissions |-> ViewRoles, findOne |-> ViewRoles,
   create |-> Needs({"MANAGE_ROLES"}), update |-> Needs({"MANAGE_ROLES"}),
   remove |-> Needs({"MANAGE_ROLES"})]

OfTenants == Needs({"SUPER_ADMIN"})

TenantsController ==
  [findAll |-> OfTenants, findOne |-> OfTenants, create |-> OfTenants,
   update |-> OfTenants, updateStatus |-> OfTenants, remove |-> OfTenants,
   getMyTenant |-> Signed, updateMyTenant |-> Needs({"MANAGE_BRANDING"}),
   updateMyTenantSettings |-> Needs({"MANAGE_BRANDING"})]

SubscriptionsController ==
  [getPlans |-> Open, handleWebhook |-> Open,
   getCurrentSubscription |-> Signed, getSubscriptionWithLimits |-> Signed,
   createCheckout |-> Signed, createBillingPortal |-> Signed,
   cancelSubscription |-> Signed, resumeSubscription |-> Signed,
   changePlan |-> Signed, getPaymentHistory |-> Signed]

NotificationsController ==
  [findAll |-> Signed, findUnread |-> Signed, countUnread |-> Signed,
   findOne |-> Signed, markAsRead |-> Signed, markMultipleAsRead |-> Signed,
   markAllAsRead |-> Signed, remove |-> Signed, removeAllRead |-> Signed]

ReportsController ==
  LET View == Needs({"VIEW_REPORTS", "MANAGE_BOOKINGS"})
  IN  [getFullReport |-> View, getBookingsStats |-> View, getBookingsTrend |-> View,
       getRevenueStats |-> View, getPopularServices |-> View,
       getUserActivity |-> View, getTimeAnalysis |-> View]

AuditController ==
  LET View == Needs({"VIEW_AUDIT"})
  IN  [findAll |-> View, getRecentActivity |-> View, getStats |-> View,
       getEntityHistory |-> View]

Server ==
  [auth |-> AuthController, bookings |-> BookingsController,
   services |-> ServicesController, users |-> UsersController,
   profile |-> ProfileController, roles |-> RolesController,
   tenants |-> TenantsController, subscriptions |-> SubscriptionsController,
   notifications |-> NotificationsController, reports |-> ReportsController,
   audit |-> AuditController]

IsEndpoint(call) == call[1] \in DOMAIN Server /\ call[2] \in DOMAIN Server[call[1]]

----------------------------------------------------------------------------
(* The guards, applied to every handler: JwtAuthGuard, PermissionsGuard.   *)

\* A required name may be that of a permission or of a role.
Permits(needs, grant) ==
  \/ needs = {}
  \/ grant.role = "SUPER_ADMIN"
  \/ needs \cap (grant.permissions \cup {grant.role}) # {}

\* Without a valid token only what is public.
IsPublic(call) == Server[call[1]][call[2]].public

Admits(call, grant) ==
  IsPublic(call) \/ Permits(Server[call[1]][call[2]].needs, grant)

=============================================================================
