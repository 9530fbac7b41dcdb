------------------------------- MODULE MCScan -------------------------------
(* An instance of Scan: a widget, a gadget of an aggregated API and a          *)
(* namespace, held by finalizers of that API and by `kubernetes`.              *)
EXTENDS ScanProperties

Example == <<"example", "com">>
Core    == <<>>
Apps    == <<"apps">>

Cleanup == [domain |-> Example, name |-> "cleanup"]

MCFinalizers == {Cleanup, Kubernetes}

OneAPI  == <<[group |-> Example, aggregated |-> TRUE]>>
NoCRDs  == <<>>

MCRefs == {"widget", "gadget", "team"}

MCResource == "widget" :> [group |-> Apps, resource |-> "widgets"] @@
              "gadget" :> [group |-> Example, resource |-> "gadgets"] @@
              "team"   :> [group |-> Core, resource |-> "namespaces"]

Listed(group, resource) == [group |-> group, resource |-> resource, list |-> TRUE]

MCCatalog == <<Listed(Core, "namespaces"), [group |-> Core, resource |-> "bindings", list |-> FALSE],
               Listed(Example, "gadgets"), Listed(Apps, "widgets")>>

Stored(terminating, meta, spec, conds) ==
    [rv |-> 0, uid |-> 0, terminating |-> terminating, meta |-> meta, spec |-> spec,
     conds |-> conds, owners |-> {}]

Stores == {[widget |-> Stored(TRUE, {Cleanup}, {}, {}), gadget |-> Stored(TRUE, {Cleanup}, {}, {}),
            team |-> Stored(TRUE, {}, {Kubernetes}, {"DiscoveryFailure"})],
           [widget |-> Stored(FALSE, {Cleanup}, {}, {}), gadget |-> Nothing,
            team |-> Stored(FALSE, {}, {Kubernetes}, {})]}

MCBirths == [ref \in MCRefs |-> {}]

Hook(config, policy, operations, group, resource, backend) ==
    [config |-> config, policy |-> policy, backend |-> backend,
     rules |-> {[operations |-> operations, groups |-> {group}, resources |-> {resource}]}]

(* Webhooks that would and that would not reject the clear of a widget.        *)
MCHooks == {Hook("webhooks", "Fail", {"CREATE", "UPDATE"}, Apps, "widgets", "service"),
            Hook("mutating", "Fail", {AnyName}, AnyGroup, AnyName, "service"),
            Hook("mutating", "Ignore", {AnyName}, AnyGroup, AnyName, "service"),
            Hook("webhooks", "Fail", {"CREATE", "DELETE"}, AnyGroup, AnyName, "service"),
            Hook("webhooks", "Fail", {"UPDATE"}, Apps, "widgets", "url"),
            Hook("mutating", "Fail", {"UPDATE"}, AnyGroup, "*/*", "service")}

OneHook == {{hook} : hook \in MCHooks}

MCBackends == {"service", "url"}
MCURLs     == {"url"}

(* No slice; slices with an endpoint that is ready, is not, or does not say.    *)
Slices == {{}, {{"ready"}, {"notReady"}}, {{"notReady"}}, {{"unset"}}}
=============================================================================
