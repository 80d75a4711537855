------------------------------- MODULE Routes -------------------------------
(***************************************************************************)
(* The routes the controllers declare, each with what its decorators ask   *)
(* for, and the five guards of app.module.ts that look at it, in their     *)
(* order.  The guards know the request and its access token; they never    *)
(* look at the database.  A route is named as its handler's method.        *)
(***************************************************************************)

CONSTANT Null

UserRole == {"voter", "candidate", "admin", "commission"}
UserStatus == {"active", "unverified", "disabled", "blocked", "deleted"}
ApiClientType == {"mobile", "ios", "web", "web_app", "website", "landing",
                  "back_office", "swagger"}

ASSUME NullIsNoName == Null \notin UserRole \cup UserStatus \cup ApiClientType

(***************************************************************************)
(* The decorators: Public, NoKey, AllowStatus, RequireClientType, Roles.   *)
(* RequireStatus is on no route.                                           *)
(***************************************************************************)
Decorators == [public : BOOLEAN, noKey : BOOLEAN, allow : SUBSET UserStatus,
               clients : SUBSET ApiClientType, roles : SUBSET UserRole]

Personal == [public |-> FALSE, noKey |-> FALSE, allow |-> {}, clients |-> {}, roles |-> {}]
Public == [Personal EXCEPT !.public = TRUE]
NoKey == [Public EXCEPT !.noKey = TRUE]
\* Mutant: whoever is not active.
EvenInactive == [Personal EXCEPT !.allow = UserStatus \ {"active"}]

EvenUnverified == [Personal EXCEPT !.allow = {"unverified"}]
OfRoles(roles) == [Personal EXCEPT !.roles = roles]
\* Mutant: the back office is not asked for a role.
OfBackOfficeOnly(roles) == [Personal EXCEPT !.clients = {"back_office"}]

OfBackOffice(roles) == [OfRoles(roles) EXCEPT !.clients = {"back_office"}]
Admin == {"admin"}
Staff == {"admin", "commission"}

On(names, decorators) == {[names |-> names, decorators |-> decorators]}

AuthRoutes ==
    On({"register", "login", "loginWithGoogle"}, Public) \cup On({"refresh"}, NoKey) \cup
    On({"confirmEmail", "resendConfirm"}, EvenUnverified) \cup
    On({"logout", "logoutAll", "sendResetOtp", "confirmResetOtp", "resetPassword",
        "updatePassword", "getSessions", "revokeSession", "sendResetLink",
        "resetFromLink", "loginWithPin", "setupPin", "removePin", "resetPin",
        "hasPin", "sendPinOtp"}, Personal)

UserRoutes ==
    On({"getMe", "updateMe", "deleteMe"}, Personal) \cup
    On({"getPublicProfiles"}, Public) \cup On({"updateProfileImage"}, EvenUnverified) \cup
    On({"listUsers", "getUser", "adminResetPassword"}, OfBackOffice(Staff)) \cup
    On({"createUser", "updateStatus", "updateRoles", "hardDelete",
        "adminUpdateProfileImage"}, OfBackOffice(Admin))

ElectionRoutes ==
    On({"createElection", "updateElection", "activate", "close", "publishResults",
        "removeElection"}, OfRoles(Admin)) \cup
    On({"listElections", "getElection"}, Personal)

ElectoralRollRoutes ==
    On({"registerVoter", "bulkRegister", "removeVoter"}, OfRoles(Admin)) \cup
    On({"listRoll", "rollStats"}, OfRoles(Staff))

CandidacyRoutes ==
    On({"submitCandidacy", "updateCandidacy", "withdrawCandidacy", "upsertProgram",
        "getPayment", "submitPayment", "createPost", "updatePost", "publishPost",
        "removePost"}, Personal) \cup
    On({"listCandidacies", "getCandidacy", "getProgram", "listPosts"}, Public) \cup
    On({"submitForUser", "approveCandidacy", "rejectCandidacy", "approvePayment",
        "rejectPayment"}, OfBackOffice(Staff))

CampaignPostRoutes == On({"listAllPosts"}, Public)

VoteRoutes ==
    On({"cast", "hasVoted"}, Personal) \cup On({"verifyReceipt", "getResults"}, Public)

PositionRoutes ==
    On({"createPosition", "updatePosition", "removePosition"}, OfRoles(Admin)) \cup
    On({"listPositions"}, Public)

JurisdictionRoutes ==
    On({"createJurisdiction", "updateJurisdiction", "removeJurisdiction"}, OfRoles(Admin)) \cup
    On({"listJurisdictions", "getJurisdiction"}, Personal)

UniversityRoutes ==
    On({"createUniversity", "updateUniversity", "removeUniversity"}, OfRoles(Admin)) \cup
    On({"listUniversities", "getUniversity"}, Public)

ConditionRoutes ==
    On({"createCondition", "updateCondition", "removeCondition"}, OfRoles(Admin)) \cup
    On({"listConditions"}, Public)

ActionCategoryRoutes ==
    On({"createCategory", "updateCategory", "removeCategory"}, OfRoles(Admin)) \cup
    On({"listCategories"}, Public)

AchievementRoutes ==
    On({"createAchievement", "updateAchievement", "withdrawAchievement"}, Personal) \cup
    On({"listAchievements", "getAchievement"}, Public) \cup
    On({"approveAchievement", "rejectAchievement"}, OfBackOffice(Staff))

ContestationRoutes ==
    On({"contest"}, Personal) \cup On({"listContestations", "resolve"}, OfBackOffice(Staff))

QuestionRoutes ==
    On({"ask", "answer"}, Personal) \cup On({"listQuestions"}, Public) \cup
    On({"hide"}, OfBackOffice(Staff))

AuditLogRoutes == On({"listAuditLog"}, OfBackOffice(Staff))

SponsorRoutes ==
    On({"submitSponsor", "listPublicSponsors"}, Public) \cup
    On({"submitSponsorByAdmin", "listSponsors", "getSponsor", "updateSponsor",
        "uploadLogo", "approveSponsor", "rejectSponsor"}, OfBackOffice(Staff)) \cup
    On({"removeSponsor"}, OfBackOffice(Admin))

MailRoutes == On({"listFailed", "retry", "abandon"}, OfBackOffice(Staff))

AppRoutes == On({"getHello"}, NoKey)

Declared ==
    AuthRoutes \cup UserRoutes \cup ElectionRoutes \cup ElectoralRollRoutes \cup
    CandidacyRoutes \cup CampaignPostRoutes \cup VoteRoutes \cup PositionRoutes \cup
    JurisdictionRoutes \cup UniversityRoutes \cup ConditionRoutes \cup
    ActionCategoryRoutes \cup AchievementRoutes \cup ContestationRoutes \cup
    QuestionRoutes \cup AuditLogRoutes \cup SponsorRoutes \cup MailRoutes \cup AppRoutes

\* Each handler is declared once.
Route == [name \in UNION {d.names : d \in Declared} |->
             (CHOOSE d \in Declared : name \in d.names).decorators]

ASSUME RoutesAreDecorated == \A name \in DOMAIN Route : Route[name] \in Decorators
ASSUME EachIsDeclaredOnce == \A c, d \in Declared : c.names \cap d.names # {} => c = d

-----------------------------------------------------------------------------
(***************************************************************************)
(* The guards, but for RequireAuthGuard, which asks Redis and is in        *)
(* Access.  key is what getApiClientType makes of the API key, Null when   *)
(* it is not known or missing; claims is what the token says.              *)
(***************************************************************************)
ApiKeyGuard(route, key) == route.noKey \/ key # Null

RequireClientTypeGuard(route, key) ==
    route.public \/ route.clients = {} \/ key \in route.clients

RequireUserStatusGuard(route, claims) ==
    claims.status \in route.allow \cup {"active"}

\* An administrator passes everywhere.
RequireRoleGuard(route, claims) ==
    \/ route.roles = {}
    \/ "admin" \in claims.roles
    \/ route.roles \cap claims.roles # {}

=============================================================================
