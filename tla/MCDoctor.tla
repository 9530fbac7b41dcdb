------------------------------ MODULE MCDoctor ------------------------------
(* Instances of Doctor.  A widget is held by finalizers of two aggregated APIs *)
(* and may own a child; the namespace team is held by `kubernetes` as well.    *)
(* Two groups have widgets: the twin is the one of the same name in the other.  *)
EXTENDS DoctorProperties

CONSTANTS dry, apply, other   \* invocations

Example == <<"example", "com">>
Backup  == <<"backup", "io">>

Cleanup == [domain |-> Example, name |-> "cleanup"]
Copy    == [domain |-> <<"volumes", "backup", "io">>, name |-> "copy"]

TwoAPIs == <<[group |-> Example, aggregated |-> TRUE], [group |-> Backup, aggregated |-> TRUE]>>

NoCRDs     == <<>>
ExampleCRD == <<Example>>

WidgetRefs      == {"widget", "child", "guess"}
TwinRefs        == {"widget", "twin", "guess"}
NamespaceRefs   == {"team", "child"}

Core == <<>>

Resources == "widget" :> [group |-> <<"apps">>, resource |-> "widgets"] @@
             "twin"   :> [group |-> <<"lab">>, resource |-> "widgets"] @@
             "guess"  :> [group |-> Core, resource |-> "widgets"] @@
             "child"  :> [group |-> Core, resource |-> "configmaps"] @@
             "team"   :> [group |-> Core, resource |-> "namespaces"]

WidgetName == {"widgets/w"}
TeamName   == {"ns/team"}

(* Without a group, widgets/w is the first that discovery lists, or else taken  *)
(* for a widget of the core group, of which there is none.                      *)
Found      == [name \in Names |-> IF name \in TeamName THEN <<"team">> ELSE <<"widget">>]
FoundTwins == [name \in Names |-> <<"widget", "twin">>]
Guessed    == [name \in Names |-> IF name \in TeamName THEN "team" ELSE "guess"]

(* A webhook that matches updates of any resource.                             *)
Guard == [config |-> "mutating", policy |-> "Fail", backend |-> "guard",
          rules |-> {[operations |-> {"UPDATE"}, groups |-> {AnyGroup}, resources |-> {AnyName}]}]

Guards       == {Guard}
MayBeGuarded == {{}, {Guard}}
Unguarded    == {{}}
NoHooks      == {}
Silent       == {{}}
DeadOrAlive  == {{{"notReady"}}, {{"notReady"}, {"ready"}}}

WidgetFinalizers    == {Cleanup, Copy}
NamespaceFinalizers == {Cleanup, Kubernetes}

WidgetSiblings    == [ref \in WidgetRefs |-> {"widget", "child"}]
TwinSiblings      == [ref \in TwinRefs |-> {}]
NamespaceSiblings == [ref \in NamespaceRefs |-> {"child"}]

Stored(terminating, meta, spec, conds, owners) ==
    [rv |-> 0, uid |-> 0, terminating |-> terminating, meta |-> meta, spec |-> spec,
     conds |-> conds, owners |-> owners]

Widget(terminating, meta) == Stored(terminating, meta, {}, {}, {})
Child(owner)              == Stored(FALSE, {}, {}, {}, {owner})
Team(meta, spec)          == Stored(TRUE, meta, spec, {"DiscoveryFailure"}, {})

(* The widget with one or both finalizers, being deleted.                      *)
StuckWidgets == {[guess |-> Nothing, widget |-> Widget(TRUE, {Cleanup, Copy}), child |-> Child("widget")],
                 [guess |-> Nothing, widget |-> Widget(TRUE, {Cleanup}), child |-> Nothing]}

(* Also live, or absent, or with a child of its own finalizers.                *)
AnyWidgets == StuckWidgets \union
    {[guess |-> Nothing, widget |-> Widget(FALSE, {Cleanup}), child |-> Nothing],
     [guess |-> Nothing, widget |-> Nothing, child |-> Nothing],
     [guess |-> Nothing, widget |-> Widget(TRUE, {Cleanup}), child |-> Stored(FALSE, {Copy}, {}, {}, {"widget"})]}

StuckNamespaces == {[team |-> Team({Cleanup}, {Kubernetes}), child |-> Child("team")],
                    [team |-> Team({}, {Kubernetes}), child |-> Nothing]}

(* Also with a configmap that another object owns.                             *)
AnyNamespaces == StuckNamespaces \union
    {[team |-> Team({}, {Kubernetes}), child |-> Child("child")]}

StuckTwins == {[guess |-> Nothing, widget |-> Widget(TRUE, {Cleanup, Copy}), twin |-> Widget(TRUE, {Cleanup, Copy})]}

WidgetBirths    == [ref \in WidgetRefs |->
                       IF ref = "guess" THEN {}
                       ELSE {[meta |-> IF ref = "widget" THEN {Cleanup} ELSE {},
                              spec |-> {}, conds |-> {}, owners |-> {}]}]
TwinBirths      == [ref \in TwinRefs |-> {}]
NamespaceBirths == [ref \in NamespaceRefs |-> {[meta |-> {}, spec |-> IF ref = "team" THEN {Kubernetes} ELSE {},
                                                conds |-> {}, owners |-> {}]}]

Line(name, mutates, tty) ==
    [name |-> name, apply |-> mutates, interactive |-> tty, strategy |-> "strict",
     audits |-> FALSE, denied |-> {}]

(* A dry run and applies on the same target.                                   *)
Invocations(name) == dry :> {Line(name, FALSE, FALSE)} @@
                     apply :> {Line(name, TRUE, FALSE)} @@
                     other :> {Line(name, TRUE, FALSE)}

WidgetFlags    == [r \in Runs |-> Invocations("widgets/w")[r]]
NamespaceFlags == [r \in Runs |-> Invocations("ns/team")[r]]
TerminalFlags  == [r \in Runs |-> {[Line("ns/team", TRUE, TRUE) EXCEPT !.denied = denied] :
                                     denied \in {{}, {"patch"}}}]
TypedFlags     == [r \in Runs |-> {Line("widgets/w", TRUE, TRUE)}]

(* One of them keeps an audit file, and may lack a right.                      *)
AuditedFlags ==
    [r \in Runs |->
        IF r = apply
        THEN {[line EXCEPT !.audits = TRUE, !.denied = denied] :
                 line \in WidgetFlags[r], denied \in {{}, {"patch"}, {"delete"}}}
        ELSE WidgetFlags[r]]
=============================================================================
