-------------------------------- MODULE Http --------------------------------
(***************************************************************************)
(* The HTTP shell: app.ts, routes/index.ts, the routers, controllers and   *)
(* middlewares.  Express runs a request through the layers mounted on its  *)
(* path, in the order they were mounted, until one refuses it or handles   *)
(* it.  A path is a sequence of segments, ":" stands for any one.  What a  *)
(* handler does is the subject of the other modules; here it is who may    *)
(* call it and how it is answered.                                         *)
(***************************************************************************)
EXTENDS Naturals, Sequences, FiniteSets

LOCAL INSTANCE SequencesExt

-----------------------------------------------------------------------------
(* Controllers: the fields of the request a handler insists on (requireUserId
   reads req.user), and the status of its success (ApiResponse). *)

OK == 200
Created == 201
NoContent == 204

Handler(name, needs, status) == [name |-> name, needs |-> needs, status |-> status]
ForUser(name, status) == Handler(name, {"user"}, status)
ForAnyone(name, status) == Handler(name, {}, status)

HealthController ==
  [liveness |-> ForAnyone("liveness", OK), readiness |-> ForAnyone("readiness", OK)]

AuthController ==
  [googleSignIn |-> ForAnyone("googleSignIn", OK), refresh |-> ForAnyone("refresh", OK),
   logout |-> ForAnyone("logout", NoContent), me |-> ForUser("me", OK),
   checkHandle |-> ForUser("checkHandle", OK), updateProfile |-> ForUser("updateProfile", OK),
   deleteAccount |-> ForUser("deleteAccount", NoContent)]

TripController ==
  [create |-> ForUser("createTrip", Created), list |-> ForUser("listTrips", OK),
   detail |-> ForUser("tripDetail", OK), update |-> ForUser("updateTrip", OK),
   remove |-> ForUser("deleteTrip", NoContent), addMembers |-> ForUser("addMembers", OK),
   removeMember |-> ForUser("removeMember", NoContent)]

ExpenseController ==
  [create |-> ForUser("createExpense", Created), listForTrip |-> ForUser("listExpenses", OK),
   balancesForTrip |-> ForUser("balances", OK), remove |-> ForUser("deleteExpense", NoContent)]

SettlementController ==
  [create |-> ForUser("createSettlement", Created), listForTrip |-> ForUser("listSettlements", OK)]

FriendController ==
  [list |-> ForUser("listFriends", OK), search |-> ForUser("search", OK),
   sendRequest |-> ForUser("sendRequest", Created), acceptRequest |-> ForUser("acceptRequest", OK),
   rejectRequest |-> ForUser("rejectRequest", OK), cancelRequest |-> ForUser("cancelRequest", OK),
   listRequests |-> ForUser("listRequests", OK), removeFriend |-> ForUser("removeFriend", OK),
   syncContacts |-> ForUser("syncContacts", OK)]

(* Removing a device asks for no user, only for the device. *)
NotificationController ==
  [registerToken |-> ForUser("registerToken", OK), removeToken |-> ForAnyone("removeToken", OK)]

ActivityController == [list |-> ForUser("listActivity", OK)]
DashboardController == [get |-> ForUser("dashboard", OK)]
RewardController == [grantGroupSlot |-> ForUser("grantGroupSlot", OK)]
SubscriptionController == [verify |-> ForUser("verify", OK)]
RtdnController == [handle |-> ForAnyone("rtdn", OK)]

-----------------------------------------------------------------------------
(* Routers: their layers in the order they are declared.  A layer without
   handler is mounted with use, on every path below its own. *)

NoHandler == Handler("none", {}, OK)
Use(guards) == [method |-> "ANY", path |-> <<>>, guards |-> guards, handler |-> NoHandler]
Route(method, path, guards, handler) ==
  [method |-> method, path |-> path, guards |-> guards, handler |-> handler]

HealthRouter ==
  <<Route("GET", <<>>, <<>>, HealthController.liveness),
    Route("GET", <<"ready">>, <<>>, HealthController.readiness)>>

AuthRouter ==
  <<Route("POST", <<"google">>, <<"authRateLimiter", "validateRequest">>, AuthController.googleSignIn),
    Route("POST", <<"refresh">>, <<"authRateLimiter", "validateRequest">>, AuthController.refresh),
    Route("POST", <<"logout">>, <<"validateRequest">>, AuthController.logout),
    Route("GET", <<"me">>, <<"requireAuth">>, AuthController.me),
    Route("GET", <<"handle", "check">>, <<"requireAuth", "validateRequest">>, AuthController.checkHandle),
    Route("PUT", <<"profile">>, <<"requireAuth", "validateRequest">>, AuthController.updateProfile),
    Route("DELETE", <<"me">>, <<"requireAuth">>, AuthController.deleteAccount)>>

TripRouter ==
  <<Use(<<"requireAuth">>),
    Route("POST", <<>>, <<"validateRequest">>, TripController.create),
    Route("GET", <<>>, <<"validateRequest">>, TripController.list),
    Route("GET", <<":">>, <<"validateRequest">>, TripController.detail),
    Route("PATCH", <<":">>, <<"validateRequest">>, TripController.update),
    Route("DELETE", <<":">>, <<"validateRequest">>, TripController.remove),
    Route("POST", <<":", "members">>, <<"validateRequest">>, TripController.addMembers),
    Route("DELETE", <<":", "members", ":">>, <<"validateRequest">>, TripController.removeMember)>>

ExpenseRootRouter ==
  <<Use(<<"requireAuth">>),
    Route("POST", <<>>, <<"validateRequest">>, ExpenseController.create),
    Route("DELETE", <<":">>, <<"validateRequest">>, ExpenseController.remove)>>

ExpenseTripRouter ==
  <<Use(<<"requireAuth">>),
    Route("GET", <<":", "expenses">>, <<"validateRequest">>, ExpenseController.listForTrip),
    Route("GET", <<":", "balances">>, <<"validateRequest", "resolveEntitlement">>,
          ExpenseController.balancesForTrip)>>

SettlementRootRouter ==
  <<Use(<<"requireAuth">>), Route("POST", <<>>, <<"validateRequest">>, SettlementController.create)>>

SettlementTripRouter ==
  <<Use(<<"requireAuth">>),
    Route("GET", <<":", "settlements">>, <<"validateRequest">>, SettlementController.listForTrip)>>

FriendRouter ==
  <<Use(<<"requireAuth">>),
    Route("GET", <<>>, <<"validateRequest">>, FriendController.list),
    Route("DELETE", <<":">>, <<"validateRequest">>, FriendController.removeFriend),
    Route("GET", <<"search">>, <<"validateRequest">>, FriendController.search),
    Route("GET", <<"requests">>, <<>>, FriendController.listRequests),
    Route("POST", <<"request">>, <<"validateRequest">>, FriendController.sendRequest),
    Route("POST", <<"request", ":", "accept">>, <<"validateRequest">>, FriendController.acceptRequest),
    Route("POST", <<"request", ":", "reject">>, <<"validateRequest">>, FriendController.rejectRequest),
    Route("POST", <<"request", ":", "cancel">>, <<"validateRequest">>, FriendController.cancelRequest),
    Route("POST", <<"contacts", "sync">>, <<"validateRequest">>, FriendController.syncContacts)>>

NotificationRouter ==
  <<Route("POST", <<"token">>, <<"requireAuth", "validateRequest">>, NotificationController.registerToken),
    Route("DELETE", <<"token">>, <<"requireAuth", "validateRequest">>, NotificationController.removeToken)>>

ActivityRouter ==
  <<Route("GET", <<>>, <<"requireAuth", "validateRequest">>, ActivityController.list)>>

DashboardRouter == <<Route("GET", <<"dashboard">>, <<"requireAuth">>, DashboardController.get)>>

RewardRouter ==
  <<Route("POST", <<"rewards", "group-slot">>, <<"requireAuth">>, RewardController.grantGroupSlot)>>

SubscriptionRoutes(auth) ==
  <<Use(auth \o <<"correlationMiddleware">>),
    Route("POST", <<"verify">>, <<"requireAuth", "validateRequest">>, SubscriptionController.verify),
    Route("POST", <<"rtdn">>, <<"verifyRtdnToken", "validateRequest">>, RtdnController.handle)>>

\* Mutant: authentication for the whole router, as in most of the others.
AuthedSubscriptionRouter == SubscriptionRoutes(<<"requireAuth">>)

SubscriptionRouter == SubscriptionRoutes(<<>>)

Mount(path, router) == [i \in DOMAIN router |-> [router[i] EXCEPT !.path = path \o @]]

(* createApiRouter: two routers share /me, three share /trips. *)
ApiRouter ==
  Mount(<<"health">>, HealthRouter) \o Mount(<<"auth">>, AuthRouter)
    \o Mount(<<"trips">>, TripRouter) \o Mount(<<"trips">>, ExpenseTripRouter)
    \o Mount(<<"trips">>, SettlementTripRouter)
    \o Mount(<<"expenses">>, ExpenseRootRouter) \o Mount(<<"settlements">>, SettlementRootRouter)
    \o Mount(<<"friends">>, FriendRouter) \o Mount(<<"notifications">>, NotificationRouter)
    \o Mount(<<"activity">>, ActivityRouter)
    \o Mount(<<"me">>, DashboardRouter) \o Mount(<<"me">>, RewardRouter)
    \o Mount(<<"subscriptions">>, SubscriptionRouter)

(* createApp.  A request has no id, and its answer no line in the log, before
   requestId and requestLogger. *)
App ==
  <<Use(<<"corsMiddleware", "json", "requestId", "requestLogger">>)>>
    \o Mount(<<"api">>, <<Use(<<"apiRateLimiter">>)>>)
    \o <<Route("GET", <<>>, <<>>, ForAnyone("about", OK))>>
    \o Mount(<<"api">>, ApiRouter)

-----------------------------------------------------------------------------
(* The environment, and a request: its method, its path and its flaws, the
   middlewares it gives a reason to refuse it. *)

Secrets == {"GOOGLE_PLAY_PACKAGE_NAME", "GOOGLE_PLAY_SERVICE_ACCOUNT_JSON", "RTDN_VERIFICATION_TOKEN"}
Environment == [isProd : BOOLEAN, MONETIZATION_REQUIRED : {"unset", "true", "false"}, present : SUBSET Secrets]
Flaws == {"corsMiddleware", "json", "apiRateLimiter", "authRateLimiter", "requireAuth", "verifyRtdnToken", "validateRequest"}

(* The effective requirement, and validateMonetizationConfig: it throws unless. *)
Required(env) ==
  \/ env.MONETIZATION_REQUIRED = "true"
  \/ env.MONETIZATION_REQUIRED = "unset" /\ env.isProd

ValidMonetizationConfig(env) == Required(env) => env.present = Secrets

-----------------------------------------------------------------------------
(* Errors, and what errorHandler answers.  An ApiError brings its status; what
   express.json and cors raise is none of the known errors. *)

ApiError(status) == [kind |-> "ApiError", status |-> status]
Thrown(kind) == [kind |-> kind, status |-> 0]

HandlePrismaKnown(kind) == CASE kind = "P2002" -> 409 [] kind = "P2025" -> 404 [] OTHER -> 500

ErrorHandler(err) ==
  CASE err.kind = "ApiError" -> err.status
    [] err.kind = "ZodError" -> 422
    [] err.kind \in {"P2002", "P2025", "PrismaClientKnownRequestError"} -> HandlePrismaKnown(err.kind)
    [] err.kind = "PrismaClientValidationError" -> 400
    [] OTHER -> 500

NotFoundHandler == ErrorHandler(ApiError(404))

-----------------------------------------------------------------------------
(* Middlewares: the status of the refusal, or the fields set on the request. *)

Sets(fields) == [refusal |-> 0, sets |-> fields]
Refuses(status) == [refusal |-> status, sets |-> {}]
RefusesIf(refused, status) == IF refused THEN Refuses(status) ELSE Sets({})

CorsMiddleware(q) == RefusesIf("corsMiddleware" \in q.flaws, ErrorHandler(Thrown("Error")))
Json(q) == RefusesIf("json" \in q.flaws, ErrorHandler(Thrown("SyntaxError")))
RequestId == Sets({"requestId"})
RequestLogger == Sets({"logLine"})

RtdnPath == <<"subscriptions", "rtdn">>
IsRateLimitExempt(path) == IsSuffix(RtdnPath, path)
ApiRateLimiter(q) == RefusesIf("apiRateLimiter" \in q.flaws /\ ~IsRateLimitExempt(q.path), 429)
AuthRateLimiter(q) == RefusesIf("authRateLimiter" \in q.flaws, 429)

RequireAuth(q) ==
  IF "requireAuth" \in q.flaws THEN Refuses(ErrorHandler(ApiError(401))) ELSE Sets({"user"})

(* Without a secret the webhook is open, except in production. *)
VerifyRtdnToken(env, q) ==
  RefusesIf(IF "RTDN_VERIFICATION_TOKEN" \in env.present
              THEN "verifyRtdnToken" \in q.flaws ELSE env.isProd,
            ErrorHandler(ApiError(401)))

ValidateRequest(q) == RefusesIf("validateRequest" \in q.flaws, ErrorHandler(Thrown("ZodError")))
CorrelationMiddleware == Sets({"correlationId"})
ResolveEntitlement == Sets({"entitlement"})

Middleware(env, q, name) ==
  CASE name = "corsMiddleware" -> CorsMiddleware(q)
    [] name = "json" -> Json(q)
    [] name = "requestId" -> RequestId
    [] name = "requestLogger" -> RequestLogger
    [] name = "apiRateLimiter" -> ApiRateLimiter(q)
    [] name = "authRateLimiter" -> AuthRateLimiter(q)
    [] name = "requireAuth" -> RequireAuth(q)
    [] name = "verifyRtdnToken" -> VerifyRtdnToken(env, q)
    [] name = "validateRequest" -> ValidateRequest(q)
    [] name = "correlationMiddleware" -> CorrelationMiddleware
    [] name = "resolveEntitlement" -> ResolveEntitlement

-----------------------------------------------------------------------------
(* Express: the layers on the path of a request, and how it is answered. *)

Below(path, mount) ==
  Len(mount) <= Len(path) /\ \A i \in DOMAIN mount : mount[i] \in {":", path[i]}

(* A use layer is run for every path below its own, a route for its own. *)
Matches(layer, q) ==
  /\ layer.method \in {"ANY", q.method}
  /\ Below(q.path, layer.path)
  /\ layer.handler = NoHandler \/ Len(layer.path) = Len(q.path)

UpToHandler(layers) ==
  LET ends == {i \in DOMAIN layers : layers[i].handler # NoHandler \/ i = Len(layers)}
  IN  SubSeq(layers, 1, CHOOSE i \in ends : \A j \in ends : i <= j)

Chain(q) == UpToHandler(SelectSeq(App, LAMBDA layer : Matches(layer, q)))

(* The middlewares, each with its result, the one after the other: until one
   refuses, with the fields the others set, or at the handler, which may miss a
   field. *)
Run(handler, names, result) ==
  LET refused == {i \in DOMAIN names : result[i].refusal # 0}
      first == CHOOSE i \in refused : \A j \in refused : i <= j
      run == IF refused = {} THEN DOMAIN names ELSE 1 .. first - 1
      fields == UNION {result[i].sets : i \in run}
      By(by, h, status) == [by |-> by, handler |-> h, fields |-> fields, status |-> status]
  IN  IF refused # {} THEN By(names[first], NoHandler, result[first].refusal)
      ELSE IF handler = NoHandler THEN By("notFoundHandler", NoHandler, NotFoundHandler)
      ELSE IF handler.needs \subseteq fields THEN By("handler", handler, handler.status)
      ELSE By("asyncHandler", NoHandler, ErrorHandler(ApiError(401)))

Handle(env, q, chain) ==
  LET names == FlattenSeq([i \in DOMAIN chain |-> chain[i].guards])
  IN  Run(Last(chain).handler, names, [i \in DOMAIN names |-> Middleware(env, q, names[i])])

Answer(env, q) == Handle(env, q, Chain(q))

-----------------------------------------------------------------------------
(* Properties. *)

Filled(path) == [i \in DOMAIN path |-> IF path[i] = ":" THEN "an id" ELSE path[i]]

(* Requests with at most two flaws, to every route. *)
CallOf(layer, flaws) == [method |-> layer.method, path |-> Filled(layer.path), flaws |-> flaws]
RouteLayers == {App[i] : i \in {j \in DOMAIN App : App[j].handler # NoHandler}}
FewFlaws == {flaws \in SUBSET Flaws : Cardinality(flaws) <= 2}

(* A route mounted later is not shadowed by one mounted before, and whoever its
   router lets through has what the handler asks for ("Auth middleware did not
   run" is never said). *)
Reached(env) ==
  \A layer \in RouteLayers :
    layer.handler.name # "rtdn" => Answer(env, CallOf(layer, {})).handler = layer.handler

NobodyForgotten(answer) == answer.by # "asyncHandler"

(* Where billing is required, Google's pushes get through whatever users do or
   lack, and nobody else's do. *)
WebhookOpen(env, layer, flaws, answer) ==
  layer.handler.name = "rtdn" /\ Required(env) =>
    (answer.handler = layer.handler
       <=> flaws \subseteq {"apiRateLimiter", "authRateLimiter", "requireAuth"})

(* A refusal is the caller's fault and says so, two excepted: these are answered
   as failures of the server, without an id and without a line in the log. *)
Blamed(answer) ==
  LET early == answer.by \in {"corsMiddleware", "json"}
  IN  /\ answer.status >= 500 <=> early
      /\ {"requestId", "logLine"} \subseteq answer.fields <=> ~early

RouteFits(env, layer, flaws, answer) ==
  /\ NobodyForgotten(answer)
  /\ WebhookOpen(env, layer, flaws, answer)
  /\ Blamed(answer)

(* The order in which routers share a mount and middlewares are mounted is right
   for every route at once, in every environment the server starts in. *)
EveryRouteFits ==
  \A env \in Environment :
    ValidMonetizationConfig(env) =>
      /\ Reached(env)
      /\ \A layer \in RouteLayers, flaws \in FewFlaws :
           RouteFits(env, layer, flaws, Answer(env, CallOf(layer, flaws)))
=============================================================================
