----------------------------- MODULE MCGenerator -----------------------------
(* Small documents for TLC, one for each way names, groups and requirements *)
(* can meet, and the flags that reach every part of the generator.          *)
EXTENDS Generator

\* Every raw name that is sorted or made into an identifier, in byte order.
Names == <<"/orders", "/pets", "/{id}", "AddPet", "GetOrders", "GetPet",
           "GetPetRequest", "Order", "Pet", "a", "a_g", "a_l", "addPet",
           "all orders", "all-orders", "allOrders", "answer", "default", "g",
           "g_a", "g_l", "getPet", "get_pet", "key", "l", "l_a", "l_g",
           "listPets", "log", "orders", "pet", "pets", "test", "v2", "v_2">>
MCRank == [n \in ToSet(Names) |-> CHOOSE i \in DOMAIN Names : Names[i] = n]
MCLetter == [n \in ToSet(Names) |->
    CASE n \in {"GetPet", "getPet", "get_pet", "GetOrders"} -> "g"
      [] n \in {"listPets", "log"} -> "l"
      [] OTHER -> "a"]
MCGoName ==
    [pet |-> "Pet", Pet |-> "Pet", Order |-> "Order", AddPet |-> "AddPet",
     GetPetRequest |-> "GetPetRequest", addPet |-> "AddPet",
     allOrders |-> "AllOrders", answer |-> "Answer", getPet |-> "GetPet",
     get_pet |-> "GetPet", listPets |-> "ListPets"]
MCPathName ==
    [p \in {"/orders", "/pets", "/{id}"} |->
        CASE p = "/orders" -> [get |-> "GetOrders"]
          [] p = "/pets" -> [get |-> "GetPets", post |-> "PostPets"]
          [] OTHER -> [get |-> "GetById", query |-> "QueryById"]]
MCPathPrefix ==
    ("/orders" :> "orders") @@ ("/pets" :> "pets") @@ ("/{id}" :> "default")
MCClean == [n \in ToSet(Names) |->
    IF n \in {"all orders", "all-orders"} THEN "all_orders" ELSE n]
MCFuncName == [key |-> "Key", log |-> "Log", v2 |-> "V2", v_2 |-> "V2"]
MCFileName == [key |-> "key", log |-> "log", v2 |-> "v2", v_2 |-> "v2"]
MCTestFiles == {"client_test.go", "server_test.go", "types_test.go",
                "security_enforce_test.go"}

\* Contents: a body or reply of one schema, or of none.
InJson(schema) == IF schema = None THEN <<>> ELSE [json |-> schema]

Op(path, method, id, tag, uses, result) ==
    [path |-> path, method |-> method, id |-> id, tag |-> tag, uses |-> uses,
     body |-> IF method = "post" THEN InJson("Pet") ELSE <<>>,
     reply |-> InJson(result), query |-> method = "get", security |-> <<>>]
GetPet    == Op("/pets", "get", "getPet", "pets", {"Pet"}, "Pet")
GetAgain  == Op("/{id}", "get", "get_pet", "orders", {"Order"}, "Order")
AddPet    == Op("/pets", "post", "addPet", "pets", {"Pet"}, None)
ListPets  == Op("/{id}", "get", "listPets", None, {"Pet"}, "Pet")
AllOrders == Op("/orders", "get", "allOrders", "orders", {"Order"}, "Order")
Nameless  == Op("/orders", "get", None, None, {"Order", "Pet"}, None)
Asking(op, list) == [op EXCEPT !.security = <<list>>]

Needs(ss) == [s \in ss |-> {}]
Secured(name, kind) == [name |-> name, kind |-> kind, insecure |-> FALSE]
Key == Secured("key", "header")
Log == Secured("log", "oauth2")
Doc(ops, schemas) ==
    [version |-> "3.0", errors |-> FALSE, ops |-> ops, schemas |-> schemas,
     security |-> <<>>, schemes |-> {Key, Log}]
Plain == Doc({GetPet, AddPet, AllOrders}, {"Pet", "Order"})

MCDocuments == {
    [Plain EXCEPT !.security = <<<<Needs({"key"})>>>>,
                  !.ops = {Asking(GetPet, <<[log |-> {"read"}]>>), AddPet,
                           Asking(AllOrders, <<>>)}],
    \* Two schemas, and two operations, of one Go name.
    Doc({GetPet, AllOrders}, {"Pet", "pet", "Order"}),
    Doc({GetPet, GetAgain, AddPet}, {"Pet", "Order"}),
    \* A schema with the name of a wrapper, an operation without an id.
    Doc({GetPet, Nameless}, {"Pet", "Order", "GetPetRequest"}),
    Doc({}, {"Pet", "Order"}),
    [Plain EXCEPT !.errors = TRUE],
    \* Methods the walk or the plan does not know.
    [Plain EXCEPT !.version = "3.2",
                  !.ops = @ \union {[ListPets EXCEPT !.method = "query"]}],
    [Plain EXCEPT !.version = "3.2",
                  !.ops = @ \union {[ListPets EXCEPT !.method = "PURGE"]}],
    [Plain EXCEPT !.ops = @ \union {[ListPets EXCEPT !.method = "trace"]}],
    [Plain EXCEPT !.version = "2.0", !.security = <<<<Needs({"log"})>>>>],
    \* Groups of one file name, and one no build takes.
    Doc({[GetPet EXCEPT !.tag = "all orders"], [AllOrders EXCEPT !.tag = "all-orders"]},
        {"Pet", "Order"}),
    Doc({[GetPet EXCEPT !.tag = "test"], AllOrders}, {"Pet", "Order"}),
    \* Operations of one tag and one prefix: chunks by first letter.
    Doc({[GetPet EXCEPT !.path = "/pets"], [AddPet EXCEPT !.id = "answer"]}, {"Pet"}),
    \* Both schemes, either scheme, and none.
    Doc({Asking(GetPet, <<Needs({"key", "log"})>>),
         Asking(AllOrders, <<Needs({"key"}), [log |-> {"read", "write"}]>>)},
        {"Pet", "Order"}),
    \* OAuth2 schemes of one name.
    [Plain EXCEPT !.schemes = {[Log EXCEPT !.name = "v2"], [Log EXCEPT !.name = "v_2"]}],
    [Plain EXCEPT !.schemes = {Log, [Key EXCEPT !.kind = "http"],
                               Secured("v2", "openIdConnect")}],
    \* Endpoints without TLS, and two providers.
    [Plain EXCEPT !.schemes = {[Log EXCEPT !.insecure = TRUE],
                               [Secured("v2", "openIdConnect") EXCEPT !.insecure = TRUE]}],
    [Plain EXCEPT !.schemes = {Secured("key", "openIdConnect"),
                               [Secured("v2", "openIdConnect") EXCEPT !.insecure = TRUE]}],
    \* Bodies and replies in several media types.
    Doc({[GetPet EXCEPT !.reply = [json |-> "Pet", xml |-> "Order"]],
         [AddPet EXCEPT !.body = [xml |-> "Pet", form |-> "Pet"]]}, {"Pet", "Order"}),
    Doc({[GetPet EXCEPT !.reply = [json |-> "Pet", hal |-> "Order"]]}, {"Pet", "Order"}),
    \* An operation id that is a Go name, and a requirement of its own.
    [Plain EXCEPT !.security = <<<<Needs({"key"})>>>>,
                  !.ops = {Asking([AddPet EXCEPT !.id = "AddPet"], <<Needs({"log"})>>),
                           AllOrders}]}

NoFlags == [x \in DOMAIN Defaults \union {"all"} |->
    IF x = "all" THEN FALSE ELSE IF x = "types" THEN FALSE ELSE Defaults[x]]
Everything ==
    [NoFlags EXCEPT !.client = TRUE, !.server = TRUE, !.all = TRUE,
                    !.oauth2 = TRUE, !.credentials = TRUE, !.discovery = TRUE,
                    !.enforce = TRUE]
MCFlags == {
    NoFlags,
    [NoFlags EXCEPT !.types = TRUE],
    [NoFlags EXCEPT !.client = TRUE],
    [NoFlags EXCEPT !.server = TRUE, !.strict = TRUE],
    [NoFlags EXCEPT !.types = TRUE, !.stubs = TRUE],
    [NoFlags EXCEPT !.server = TRUE, !.router = "chi", !.responses = TRUE, !.enforce = TRUE],
    [NoFlags EXCEPT !.server = TRUE, !.stubs = TRUE, !.binder = TRUE],
    [NoFlags EXCEPT !.server = TRUE, !.router = "gin"],
    [NoFlags EXCEPT !.client = TRUE, !.maxTypes = -1],
    Everything,
    [Everything EXCEPT !.strict = TRUE],
    [Everything EXCEPT !.maxOperations = 1],
    [Everything EXCEPT !.server = FALSE, !.all = FALSE, !.readme = FALSE],
    [Everything EXCEPT !.maxTypes = 1, !.byTag = FALSE, !.helpers = FALSE],
    [Everything EXCEPT !.maxLines = 20, !.byTag = FALSE, !.byPrefix = FALSE],
    [Everything EXCEPT !.maxOperations = 1, !.byTag = FALSE, !.byPrefix = FALSE]}
=============================================================================
