----------------------------- MODULE MCAssembly -----------------------------
(* Instances of Assembly: a router of the application's own and two domain *)
(* modules, whose paths overlap.                                           *)
EXTENDS Assembly

MCMethods == {"GET", "POST"}
MCClasses == {"Conflict", "Gone"}

\* One URL matches a template and a literal path, another the template only.
MCMatches ==
  [u \in {"/items/special", "/items/7", "/none"} |->
     CASE u = "/items/special" -> {"/items/{id}", "/items/special"}
       [] u = "/items/7" -> {"/items/{id}"}
       [] u = "/none" -> {}]

Route(methods, path, id, params, responses, dependencies) ==
  [methods |-> methods, path |-> path, id |-> id, params |-> params,
   responses |-> responses, dependencies |-> dependencies, in_schema |-> TRUE]
Item    == Route({"GET"}, "/items/{id}", "item", TRUE, <<>>, <<"own">>)
Create  == Route({"POST"}, "/items/{id}", "create", TRUE, 400 :> "mine", <<>>)
Special == Route({"GET", "POST"}, "/items/special", "special", FALSE, 409 :> "mine", <<>>)
Hidden  == [Special EXCEPT !.in_schema = FALSE]
Twin    == [Item EXCEPT !.id = "twin"]
SameId  == [Special EXCEPT !.id = "item"]

Policies ==
  { Unset,
    [Unset EXCEPT !.include_synthetic_422 = "no", !.dependencies = <<"token">>],
    [Unset EXCEPT !.validation_status = 400, !.include_synthetic_422 = "no",
                  !.validation_response_model = "Invalid"],
    [Unset EXCEPT !.validation_status = 400, !.responses = 400 :> "bad" @@ 409 :> "taken" @@ 500 :> "late"],
    [Unset EXCEPT !.validation_status = 422, !.include_synthetic_422 = "yes",
                  !.error_renderer = "plain", !.dependencies = <<"admin">>],
    [Unset EXCEPT !.common_error_response_model = "Error", !.fallback_response_model = "Fallback",
                  !.responses = 500 :> "down"],
    [Unset EXCEPT !.common_error_response_model = "Error", !.fallback_response_model = "Fallback",
                  !.common_error_statuses = <<409, 422>>, !.error_renderer = "fancy"] }
Maybe(S) == {{}} \cup {{p} : p \in S}

Module(name, routers, policy) ==
  [name |-> name, routers |-> routers, policy |-> policy, dependencies |-> <<name>>,
   resources |-> <<>>, checks |-> <<>>, mappers |-> <<>>]
Application(routers, modules, policy) ==
  [routers |-> routers, modules |-> modules, policy |-> policy, resources |-> <<>>,
   mappers |-> <<>>, services |-> {}]

\* Every policy of the application and of two modules, over two layouts of routes.
ByPolicy ==
  {Application(direct, <<Module("orders", <<<<Item>>>>, m), Module("stock", <<<<Create>>, rest>>, n)>>, a) :
     direct \in {<<>>, <<<<Hidden>>>>}, rest \in {<<Special>>},
     a \in Maybe(Policies), m \in Maybe(Policies), n \in {{}, {CHOOSE p \in Policies : p.error_renderer = "plain"}}}

\* Routes that collide, or share a path or an id.
ByRoutes ==
  {Application(<<<<r>>>>, <<Module("orders", <<<<s, Special>>>>, {}), Module(name, <<<<Create>>>>, m)>>, {}) :
     r \in {Item, Twin, Hidden}, s \in {Item, SameId, Twin}, name \in {"orders", "stock"},
     m \in Maybe({CHOOSE p \in Policies : p.error_renderer = "fancy"})}

\* Names of resources, checks and services, and mappers, that collide or not.
ByNames ==
  {[Application(<<>>, <<[Module("orders", <<<<Item>>>>, {}) EXCEPT
                           !.resources = x, !.checks = y, !.mappers = w]>>, {})
      EXCEPT !.resources = z, !.services = v, !.mappers = q] :
     x \in {<<>>, <<"db">>}, y \in {<<>>, <<"db">>, <<"queue">>}, z \in {<<>>, <<"db">>, <<"queue">>},
     v \in {{}, {"queue"}}, w \in {<<>>, <<"Conflict">>}, q \in {<<>>, <<"Conflict">>, <<"Gone">>}}

MCApplications == ByPolicy \cup ByRoutes \cup ByNames
=============================================================================
