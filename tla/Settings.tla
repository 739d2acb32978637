------------------------------ MODULE Settings ------------------------------
(***************************************************************************)
(* The policy a person writes, and the checks it has to pass               *)
(* (native/src/policy.rs, registry.rs, and the checks of capacity.rs and   *)
(* critical.rs); what every provider's own rules are shown of it; and its  *)
(* migration to later versions (src/management.ps1).                       *)
(*                                                                         *)
(* A value is a tuple of its kind and its content, as JSON has them; a     *)
(* number counts halves, which tells whole ones from others.  Texts are    *)
(* names whose shape the constants tell.  A refusal is only a refusal:     *)
(* which words it is given in is left out, and so is the letter case of    *)
(* field names.                                                            *)
(***************************************************************************)
EXTENDS Integers, Sequences, FiniteSets, TLC

CONSTANTS SlotNames,   \* the texts of the shape ^[A-Za-z0-9_-]{1,40}$
          Numerals,    \* those of digits
          Labels,      \* texts that may be shown: no control characters, not too long
          Exclusions,  \* texts provider:slot, as pairs of the two
          Times,       \* the texts HH:mm
          Homes,       \* full paths, each with its key: the path without its case
          ProviderIds, \* the texts of the shape ^[a-z][a-z0-9-]{0,39}$
          Profiles,    \* the capacity profiles a release ships
          Catalog      \* its definitions of providers, by id

Null == <<"null">>
Bool(b) == <<"bool", b>>
Number(n) == <<"number", 2 * n>>
Half(n) == <<"number", 2 * n + 1>>
Text(t) == <<"text", t>>
List(items) == <<"list", items>>
Object(fields) == <<"object", fields>>

IsBool(v) == v[1] = "bool"
IsNumber(v) == v[1] = "number"
IsText(v) == v[1] = "text"
IsList(v) == v[1] = "list"
IsObject(v) == v[1] = "object"
Plain(v) == v = Null \/ IsObject(v)            \* members of nothing else are read
Fields(v) == IF IsObject(v) THEN DOMAIN v[2] ELSE {}
Get(v, field) == IF field \in Fields(v) THEN v[2][field] ELSE Null
Put(v, field, value) == Object((field :> value) @@ v[2])
Only(v, fields) == Object([f \in Fields(v) \cap fields |-> v[2][f]])
Without(v, fields) == Only(v, Fields(v) \ fields)
Over(v, w) == Object(w[2] @@ v[2])              \* the members of w, and of v what w lacks

Items(v) == IF IsList(v) THEN v[2] ELSE <<v>>                   \* @($value)
Each(v) == IF v = Null THEN <<>> ELSE Items(v)                  \* foreach
Elements(items) == {items[i] : i \in DOMAIN items}
Once(items) == \A i, j \in DOMAIN items : items[i] = items[j] => i = j
Truthy(v) ==
  CASE v[1] = "null" -> FALSE
    [] v[1] = "bool" -> v[2]
    [] v[1] = "number" -> v[2] # 0
    [] v[1] = "text" -> v[2] # ""
    [] v[1] = "list" -> Len(v[2]) > 1 \/ (Len(v[2]) = 1 /\ v[2][1] \notin {Null, Bool(FALSE), Number(0), Text("")})
    [] v[1] = "object" -> TRUE
(* [string] of what has one; a half is never asked for. *)
Str(v) == CASE IsText(v) -> v[2]
            [] IsNumber(v) -> ToString(v[2] \div 2)
            [] IsBool(v) -> IF v[2] THEN "True" ELSE "False"
            [] OTHER -> ""
HasText(v) == ~ IsList(v) /\ ~ IsObject(v)

OneOf(v, texts) == IsText(v) /\ v[2] \in texts
Between(v, low, high) == IsNumber(v) /\ v[2] \in 2 * low .. 2 * high
Above0(v, high) == IsNumber(v) /\ v[2] \in 1 .. 2 * high
IsWhole(v) == v[2] % 2 = 0
OrNull(v, condition) == v = Null \/ condition
OptionalBools(v, fields) == \A f \in fields : OrNull(Get(v, f), IsBool(Get(v, f)))
OptionalRange(v, fields, high) == \A f \in fields : OrNull(Get(v, f), Between(Get(v, f), 0, high))
Setting(v, field, default) == IF Get(v, field) = Null THEN default ELSE Get(v, field)

Orders == {"prefer", "soonest-reset", "weekly-expiry", "balanced"}
Later == {"weekly-expiry", "balanced"}
Week == 604800                                   \* seconds, and minutes too

-----------------------------------------------------------------------------
(* Parts of a policy *)

CapacityAccepted(part) ==
  /\ Plain(Get(part, "capacity"))
  /\ \A name \in Fields(Get(part, "capacity")) :
       LET c == Get(Get(part, "capacity"), name)
           scoped == Get(c, "scoped")
       IN /\ name \in SlotNames /\ IsObject(c)
          /\ Fields(c) \subseteq {"profile", "weekly", "fiveHour", "scoped", "evidence"}
          /\ Truthy(Get(c, "profile")) => HasText(Get(c, "profile")) /\ Str(Get(c, "profile")) \in Profiles
          /\ \A f \in {"weekly", "fiveHour"} : OrNull(Get(c, f), Above0(Get(c, f), 1000000))
          /\ Plain(scoped)
          /\ \A s \in Fields(scoped) : s \in SlotNames /\ Above0(Get(scoped, s), 1000000)
          /\ Truthy(Get(c, "evidence")) => HasText(Get(c, "evidence")) /\ Str(Get(c, "evidence")) \in Labels

CriticalAccepted(part) ==
  LET c == Get(part, "critical") IN
  Truthy(c) =>
    /\ IsObject(c)
    /\ Fields(c) \subseteq {"enabled", "enterPercent", "exitPercent", "floorPercent", "drainToZero",
                            "pollSeconds", "dwellSeconds", "advantagePercent"}
    /\ OptionalBools(c, {"enabled", "drainToZero"})
    /\ OptionalRange(c, {"enterPercent", "exitPercent", "floorPercent", "advantagePercent"}, 100)
    /\ Setting(c, "exitPercent", Number(25))[2] > Setting(c, "enterPercent", Number(20))[2]
    /\ Setting(c, "floorPercent", Number(1))[2] <= Setting(c, "enterPercent", Number(20))[2]
    /\ \A f \in {"pollSeconds", "dwellSeconds"} : OrNull(Get(c, f), Between(Get(c, f), 60, 300))

(* A list of texts or of whole numbers that names nothing twice.  A single  *)
(* item for a list is refused, and a list of anything else, or of both, is  *)
(* not accepted: ps.rs unique leaves it undecided.                          *)
UniqueList(v) ==
  OrNull(v, /\ IsList(v) /\ Once(v[2])
            /\ \/ \A x \in Elements(v[2]) : IsText(x)
               \/ \A x \in Elements(v[2]) : IsNumber(x) /\ IsWhole(x))

-----------------------------------------------------------------------------
(* Definitions of providers *)

Windows(required) == ("300" :> [minutes |-> 300, required |-> required])
                       @@ ("10080" :> [minutes |-> 10080, required |-> required])
Capabilities ==
  {"observation", "enrollment", "selection", "nativeLaunch", "warming", "recoveryProbe", "t3Rollover"}

(* Get-Hotpl8ProviderDriver *)
Drivers ==
  ("claude-cswap" :>
     [provider |-> "claude", numeric |-> TRUE, meters |-> {"claude"}, windows |-> Windows(TRUE),
      capabilities |-> Capabilities \ {"nativeLaunch", "t3Rollover"}, native |-> "claude", t3 |-> "claudeAgent"])
  @@ ("codex-app-server" :>
     [provider |-> "codex", numeric |-> FALSE, meters |-> {"codex", "codex_bengalfox"}, windows |-> Windows(FALSE),
      capabilities |-> Capabilities \ {"warming", "recoveryProbe"}, native |-> "codex", t3 |-> "codex"])
DriverOf(id) == Drivers[Get(Catalog[id], "driver")[2]]

WindowAccepted(window, driver) ==
  /\ IsObject(window) /\ Fields(window) = {"id", "minutes", "required"}
  /\ OneOf(Get(window, "id"), DOMAIN driver.windows)
  /\ Get(window, "minutes") = Number(driver.windows[Get(window, "id")[2]].minutes)
  /\ Get(window, "required") = Bool(driver.windows[Get(window, "id")[2]].required)

DefaultsAccepted(defaults) ==
  /\ IsObject(defaults)
  /\ Fields(defaults) \subseteq {"order", "margin5h", "margin7d", "margin7dWork", "hysteresis", "resetLeadMin"}
  /\ "order" \in Fields(defaults) => OneOf(Get(defaults, "order"), Orders)
  /\ \A f \in Fields(defaults) \ {"order"} :
       Between(Get(defaults, f), 0, IF f = "resetLeadMin" THEN Week ELSE 100)

(* Assert-Hotpl8ProviderDefinition *)
DefinitionFields == {"schemaVersion", "id", "name", "driver", "defaultMeter", "meters", "windows", "policyDefaults",
                     "modelMeters", "capabilities", "integrations", "display"}
DefinitionAccepted(d) ==
  /\ IsObject(d) /\ Fields(d) \subseteq DefinitionFields /\ DefinitionFields \ {"modelMeters"} \subseteq Fields(d)
  /\ Get(d, "schemaVersion") = Number(1)
  /\ IsText(Get(d, "id")) /\ Get(d, "id")[2] \in ProviderIds
  /\ IsText(Get(d, "name")) /\ Get(d, "name")[2] \in Labels \ {""}
  /\ IsText(Get(d, "driver")) /\ Get(d, "driver")[2] \in DOMAIN Drivers
  /\ LET driver == Drivers[Get(d, "driver")[2]]
         meters == Get(d, "meters")
         windows == Get(d, "windows")
         capabilities == Get(d, "capabilities")
         integrations == Get(d, "integrations")
         order == Get(Get(d, "display"), "order")
     IN /\ Get(d, "id")[2] \in {"claude", "codex"} => driver.provider = Get(d, "id")[2]
        /\ IsList(meters) /\ Len(meters[2]) \in 1 .. 8 /\ Once(meters[2])
        /\ \A m \in Elements(meters[2]) : OneOf(m, driver.meters)
        /\ IsText(Get(d, "defaultMeter")) /\ Get(d, "defaultMeter") \in Elements(meters[2])
        /\ IsList(windows) /\ Len(windows[2]) = Cardinality(DOMAIN driver.windows)
        /\ \A w \in Elements(windows[2]) : WindowAccepted(w, driver)
        /\ Once([i \in DOMAIN windows[2] |-> Get(windows[2][i], "id")])
        /\ DefaultsAccepted(Get(d, "policyDefaults"))
        /\ "modelMeters" \in Fields(d) => IsObject(Get(d, "modelMeters"))
        /\ IsObject(capabilities) /\ Fields(capabilities) = Capabilities
        /\ \A c \in Capabilities :
             IsBool(Get(capabilities, c)) /\ (Get(capabilities, c) = Bool(TRUE) => c \in driver.capabilities)
        /\ IsObject(integrations) /\ Fields(integrations) \subseteq {"native", "t3"}
        /\ \A f \in Fields(integrations) : Get(integrations, f) = Text(driver[f])
        /\ Truthy(Get(capabilities, "t3Rollover")) => Truthy(Get(integrations, "t3"))
        /\ Fields(Get(d, "display")) = {"order"} /\ Between(order, 0, 10000) /\ IsWhole(order)

(* Get-Hotpl8ProviderCatalog *)
CatalogAccepted ==
  /\ Cardinality(DOMAIN Catalog) \in 1 .. 32
  /\ \A file \in DOMAIN Catalog : DefinitionAccepted(Catalog[file]) /\ Get(Catalog[file], "id") = Text(file)

-----------------------------------------------------------------------------
(* A whole policy *)

(* provider:slot, of a provider that is registered and a slot of its kind. *)
ExclusionAccepted(v) ==
  /\ IsText(v) /\ v[2] \in DOMAIN Exclusions
  /\ LET pair == Exclusions[v[2]] IN
     /\ pair[1] \in DOMAIN Catalog /\ pair[2] \in SlotNames
     /\ DriverOf(pair[1]).numeric => pair[2] \in Numerals

ScheduleAccepted(s) ==
  Truthy(s) =>
    /\ IsObject(s) /\ Fields(s) \subseteq {"start", "end", "days", "timeZone"}
    /\ \A f \in {"start", "end"} : OneOf(Get(s, f), Times)
    /\ LET days == Get(s, "days") IN
       /\ days # Null /\ UniqueList(days) /\ days[2] # <<>>
       /\ \A d \in Elements(days[2]) : Between(d, 0, 6)

(* Assert-Hotpl8AutomationPolicy *)
AutomationAccepted(p) ==
  LET a == Get(p, "automation")
      limit == Get(a, "dailyAttemptLimit")
  IN /\ UniqueList(Get(p, "disabled")) /\ UniqueList(Get(p, "claudeModels"))
     /\ Truthy(a) =>
          /\ IsObject(a) /\ Fields(a) \subseteq {"schedule", "dailyAttemptLimit", "warmExcluded", "continue"}
          /\ OptionalBools(a, {"continue"})
          /\ OrNull(limit, Between(limit, 1, 100) /\ IsWhole(limit))
          /\ UniqueList(Get(a, "warmExcluded"))
          /\ \A v \in Elements(Each(Get(a, "warmExcluded"))) : ExclusionAccepted(v)
          /\ ScheduleAccepted(Get(a, "schedule"))
     /\ \A n \in Elements(Each(Get(p, "disabled"))) :
          \E m \in Elements(Items(Get(p, "prefer"))) : HasText(m) /\ Str(m) = Str(n)
     /\ \A m \in Elements(Each(Get(p, "claudeModels"))) : IsText(m) /\ m[2] \in SlotNames
     /\ OptionalBools(p, {"historyEnabled", "notificationsEnabled"})

(* Assert-CodexPolicy *)
CodexAccepted(part) ==
  LET slots == Items(Get(part, "slots"))
      Ids == {Str(Get(slot, "id")) : slot \in Elements(slots)}
      chosen(f) == SelectSeq(Items(Get(part, f)), Truthy)
  IN /\ CapacityAccepted(part) /\ CriticalAccepted(part)
     /\ Fields(part) \subseteq {"slots", "prefer", "reserve", "disabled", "order", "defaultMeter", "modelMeters", "margin5h",
                               "margin7d", "margin7dWork", "hysteresis", "resetLeadMin", "capacity", "critical"}
     /\ \A i \in DOMAIN slots :
          /\ Truthy(slots[i]) /\ HasText(Get(slots[i], "id")) /\ Str(Get(slots[i], "id")) \in SlotNames
          /\ OneOf(Get(slots[i], "home"), DOMAIN Homes)
          /\ HasText(Get(slots[i], "label")) /\ Str(Get(slots[i], "label")) \in Labels
     /\ \A i, j \in DOMAIN slots : i # j =>
          /\ Str(Get(slots[i], "id")) # Str(Get(slots[j], "id"))
          /\ Homes[Get(slots[i], "home")[2]] # Homes[Get(slots[j], "home")[2]]
     /\ \A f \in {"prefer", "reserve", "disabled"} :
          /\ \A i \in DOMAIN chosen(f) : HasText(chosen(f)[i]) /\ Str(chosen(f)[i]) \in Ids
          /\ \A i, j \in DOMAIN chosen(f) : i # j => Str(chosen(f)[i]) # Str(chosen(f)[j])
     /\ OptionalRange(part, {"margin5h", "margin7d", "margin7dWork", "hysteresis"}, 100)
     /\ Truthy(Get(part, "defaultMeter")) => OneOf(Get(part, "defaultMeter"), {"codex", "codex_bengalfox"})
     /\ Truthy(Get(part, "order")) => OneOf(Get(part, "order"), Orders)
     /\ "modelMeters" \in Fields(part) => IsObject(Get(part, "modelMeters"))
     /\ OptionalRange(part, {"resetLeadMin"}, Week)

(* Assert-Hotpl8Policy, of a policy that is not of version 3.  One without a *)
(* version may hold anything besides; a version names every field.           *)
Version(p) == Get(p, "schemaVersion")
V2Fields == {"automation", "disabled", "claudeModels", "historyEnabled", "notificationsEnabled", "capacity", "critical",
             "display"}
V1Fields == {"schemaVersion", "mode", "prefer", "reserve", "labels", "weights", "switchEnabled", "warm", "probeEnabled",
             "order", "pattern", "margin5h", "margin7d", "margin7dWork", "hysteresis", "warmMin7d", "warmMin7dWork",
             "maxUsageAgeS", "staleQuarantineS", "warmFloorMin", "warmPhaseWindowMin", "warmGroup", "resetLeadMin", "codex"}
Durations == {"maxUsageAgeS", "staleQuarantineS", "warmFloorMin", "warmPhaseWindowMin", "warmGroup"}

VersionAccepted(p) ==
  LET codex == Get(p, "codex") IN
  /\ Version(p) \in {Null, Number(1), Number(2)}
  /\ Version(p) # Null => Fields(p) \subseteq V1Fields \union (IF Version(p) = Number(2) THEN V2Fields ELSE {})
  /\ Version(p) # Null => Truthy(Get(p, "mode"))
  /\ Version(p) # Number(2) =>
       /\ Fields(p) \cap V2Fields = {}
       /\ ~ Truthy(Get(codex, "capacity")) /\ ~ Truthy(Get(codex, "critical"))
       /\ ~ OneOf(Get(p, "order"), Later) /\ ~ OneOf(Get(codex, "order"), Later)
       /\ "disabled" \notin Fields(codex)

DisplayAccepted(display) ==
  Truthy(display) =>
    IsObject(display) /\ Fields(display) \subseteq {"reducedMotion", "noColor"}
      /\ \A f \in Fields(display) : IsBool(Get(display, f))

LegacyAccepted(p) ==
  LET named == SelectSeq(Items(Get(p, "prefer")), LAMBDA n : n # Null)
      labels == Get(p, "labels")
  IN /\ VersionAccepted(p) /\ ~ IsList(Get(p, "codex"))
     /\ Version(p) = Number(2) => AutomationAccepted(p)
     /\ Truthy(Get(p, "mode")) => OneOf(Get(p, "mode"), {"monitor", "automate"})
     /\ OptionalBools(p, {"warm", "switchEnabled", "probeEnabled"})
     /\ OptionalRange(p, {"margin5h", "margin7d", "margin7dWork", "hysteresis", "warmMin7d", "warmMin7dWork"}, 100)
     /\ OptionalRange(p, Durations \union {"resetLeadMin"}, Week)
     /\ \A f \in Durations : Get(p, f) # Number(0)
     /\ Truthy(Get(p, "order")) => OneOf(Get(p, "order"), Orders)
     /\ Truthy(Get(p, "pattern")) => OneOf(Get(p, "pattern"), {"maintain", "even", "clustered", "synced"})
     /\ \A n \in Elements(named) : Between(n, 1, 10000) /\ IsWhole(n)
     /\ Once(named)
     /\ \A n \in Elements(Items(Get(p, "reserve"))) \ {Null} :
          HasText(n) /\ Str(n) \in {Str(m) : m \in Elements(named)}
     /\ Plain(labels) /\ Plain(Get(p, "weights"))
     /\ \A f \in Fields(labels) : HasText(Get(labels, f)) /\ Str(Get(labels, f)) \in Labels
     /\ CapacityAccepted(p) /\ CriticalAccepted(p) /\ DisplayAccepted(Get(p, "display"))
     /\ \A f \in Fields(Get(p, "weights")) : Above0(Get(Get(p, "weights"), f), 10000)

-----------------------------------------------------------------------------
(* What each provider is shown *)

(* Get-Hotpl8ConfiguredProviders: the part of each provider that is         *)
(* configured.  Defaults go below what a part of version 3 says itself; its *)
(* meter has to be one of the definition's.                                 *)
LegacyFields == (V1Fields \union V2Fields) \ {"schemaVersion", "mode", "switchEnabled", "warm", "probeEnabled",
                                              "automation", "historyEnabled", "notificationsEnabled", "display"}
WithMeter(part, id) ==
  IF DriverOf(id).provider = "codex" /\ "defaultMeter" \notin Fields(part)
  THEN Put(part, "defaultMeter", Get(Catalog[id], "defaultMeter")) ELSE part
Part3(p, id) == WithMeter(Over(Get(Catalog[id], "policyDefaults"), Get(Get(p, "providers"), id)), id)

Listed3(p) ==
  LET providers == Get(p, "providers") IN
  /\ IsObject(providers) /\ Fields(p) \cap LegacyFields = {}
  /\ Cardinality(Fields(providers)) <= 32 /\ Fields(providers) \subseteq DOMAIN Catalog
  /\ \A id \in Fields(providers) :
       /\ IsObject(Get(providers, id))
       /\ DriverOf(id).provider = "codex" =>
            /\ "modelMeters" \in Fields(Part3(p, id)) => IsObject(Get(Part3(p, id), "modelMeters"))
            /\ IsText(Get(Part3(p, id), "defaultMeter"))
            /\ Get(Part3(p, id), "defaultMeter") \in Elements(Items(Get(Catalog[id], "meters")))

Listed(p) ==
  /\ IsObject(p)
  /\ "schemaVersion" \in Fields(p) => Version(p) \in {Number(1), Number(2), Number(3)}
  /\ IF Version(p) = Number(3) THEN Listed3(p)
     ELSE /\ "providers" \notin Fields(p)
          /\ "codex" \in Fields(p) => IsObject(Get(p, "codex")) /\ "codex" \in DOMAIN Catalog
          /\ "prefer" \in Fields(p) => "claude" \in DOMAIN Catalog

Configured(p) ==
  IF Version(p) = Number(3) THEN [id \in Fields(Get(p, "providers")) |-> Part3(p, id)]
  ELSE [id \in {"claude" : f \in Fields(p) \cap {"prefer"}} \union {"codex" : f \in Fields(p) \cap {"codex"}} |->
          IF id = "claude" THEN p ELSE Get(p, "codex")]

(* Get-Hotpl8ProviderView: every provider is shown a policy of the version  *)
(* before, with its own part in the place its family's had there.           *)
Controls == {"schemaVersion", "mode", "switchEnabled", "warm", "probeEnabled", "automation"}
Shared == {"historyEnabled", "notificationsEnabled", "display"}
View(p, id) ==
  LET part == Configured(p)[id]
      own == IF DriverOf(id).provider = "claude" THEN Without(Over(Only(p, Controls), part), {"codex"})
             ELSE Put(Only(p, Controls), "codex", part)
      versioned == IF Version(p) = Number(3) THEN Put(own, "schemaVersion", Number(2)) ELSE own
  IN Over(versioned, Only(p, Shared))

(* Where a family's rules look for its settings in a view. *)
Own(view, id) == IF DriverOf(id).provider = "claude" THEN view ELSE Get(view, "codex")

-----------------------------------------------------------------------------
(* Version 3 *)

Global == Controls \union Shared \union {"providers", "codex"}

(* Slip: a part is taken for what it says. *)
PartUnchecked(p, id) ==
  IF DriverOf(id).provider = "claude" THEN LegacyAccepted(View(p, id)) ELSE CodexAccepted(Configured(p)[id])

PartAccepted(p, id) ==
  LET part == Configured(p)[id] IN
  /\ IF DriverOf(id).provider = "claude" THEN Fields(part) \cap Global = {} /\ LegacyAccepted(View(p, id))
     ELSE CodexAccepted(part)
  /\ Truthy(Get(part, "warm")) => Truthy(Get(Get(Catalog[id], "capabilities"), "warming"))

V3Accepted(p) ==
  /\ Fields(p) \subseteq Controls \union Shared \union {"providers"}
  /\ OneOf(Get(p, "mode"), {"monitor", "automate"})
  /\ LegacyAccepted(Put(Without(p, {"providers"}), "schemaVersion", Number(2)))
  /\ Listed(p)
  /\ \A id \in DOMAIN Configured(p) : PartAccepted(p, id)
  /\ LET part(id) == Configured(p)[id]
         homes(id) == {Homes[Get(slot, "home")[2]] : slot \in Elements(Items(Get(part(id), "slots")))}
         Family(f) == {id \in DOMAIN Configured(p) : DriverOf(id).provider = f}
     IN /\ \A x, y \in Family("codex") : x # y => homes(x) \cap homes(y) = {}
        /\ Cardinality({id \in Family("claude") : Elements(Each(Get(part(id), "prefer"))) \ {Null} # {}}) <= 1

(* Assert-Hotpl8Policy *)
Accepted(p) == IsObject(p) /\ IF Version(p) = Number(3) THEN V3Accepted(p) ELSE LegacyAccepted(p)

(* What a writer asks of a policy, and every collector before it reads with *)
(* one (Save-Hotpl8Policy).                                                 *)
Saved(p) == Accepted(p) /\ (Truthy(Get(p, "codex")) => CodexAccepted(Get(p, "codex")))

(* Get-Hotpl8Actions.  Without a version, what is not said is allowed. *)
Actions(p) ==
  LET enabled == Get(p, "mode") # Text("monitor")
      asked(f) == Get(p, f) = Bool(TRUE) \/ (Version(p) = Null /\ Get(p, f) = Null)
  IN [switching |-> enabled /\ asked("switchEnabled"), warming |-> enabled /\ Get(p, "warm") = Bool(TRUE),
      probing |-> enabled /\ asked("probeEnabled"),
      continuing |-> enabled /\ Get(Get(p, "automation"), "continue") # Bool(FALSE)]

(* The accounts of a provider, in the order the policy gives them. *)
Accounts(p, id) ==
  LET part == Configured(p)[id]
      rows == SelectSeq(Each(Get(part, "slots")), Truthy)
  IN IF DriverOf(id).numeric THEN [i \in DOMAIN Items(Get(part, "prefer")) |-> Str(Items(Get(part, "prefer"))[i])]
     ELSE [i \in DOMAIN rows |-> Str(Get(rows[i], "id"))]

-----------------------------------------------------------------------------
(* Migration *)

(* ConvertTo-Hotpl8PolicyV2: what was allowed by not being said is said. *)
Said(p, field, value) == IF Get(p, field) = Null THEN Put(p, field, value) ELSE p
ToV2(p) ==
  IF Version(p) = Number(3) THEN p
  ELSE LET moded == IF Truthy(Get(p, "mode")) THEN p ELSE Put(p, "mode", Text("automate"))
           switching == Said(moded, "switchEnabled", Bool(Actions(p).switching))
       IN Put(Said(switching, "probeEnabled", Bool(Actions(p).probing)), "schemaVersion", Number(2))

(* What the readers take for a number that is missing, of either family. *)
Missing(id) ==
  IF DriverOf(id).provider = "claude"
  THEN [order |-> Text("prefer"), margin5h |-> Number(0), margin7d |-> Number(20), hysteresis |-> Number(0),
        resetLeadMin |-> Number(10)]
  ELSE [order |-> Text("prefer"), margin5h |-> Number(25), margin7d |-> Number(20), hysteresis |-> Number(10),
        resetLeadMin |-> Number(10)]

(* Slip: what is missing is left to the definition's defaults. *)
MovedBare(p, id) == Without(Configured(p)[id], Global)

(* ConvertTo-Hotpl8PolicyV3: each part moves, with what its readers took    *)
(* for missing numbers, because the definition's defaults may be others.    *)
Moved(p, id) ==
  LET bare == Without(Configured(p)[id], Global)
      missing == {f \in DOMAIN Missing(id) : Get(bare, f) = Null}
  IN Over(bare, Object([f \in missing |-> Missing(id)[f]]))

ToV3(p) ==
  IF Version(p) = Number(3) THEN p
  ELSE LET actions == Actions(p)
           controls == [schemaVersion |-> Number(3),
                        mode |-> IF Truthy(Get(p, "mode")) THEN Get(p, "mode") ELSE Text("automate"),
                        switchEnabled |-> Bool(actions.switching), warm |-> Bool(actions.warming),
                        probeEnabled |-> Bool(actions.probing),
                        providers |-> Object([id \in DOMAIN Configured(p) |-> Moved(p, id)])]
       IN Over(Object(controls), Only(p, {"automation"} \union Shared))

(* The numbers selection goes by: of a view, as claude.rs, decision.rs and  *)
(* contract.rs read them.                                                   *)
Numbers(p, id) ==
  LET own == Own(View(p, id), id)
      weekly == Setting(own, "margin7d", Number(20))
      ofClaude == DriverOf(id).provider = "claude"
  IN [order |-> Setting(own, "order", Text("prefer")),
      short |-> Setting(own, "margin5h", Number(IF ofClaude THEN 0 ELSE 25)),
      reserve |-> weekly, work |-> Setting(own, "margin7dWork", weekly),
      hysteresis |-> Setting(own, "hysteresis", Number(IF ofClaude THEN 0 ELSE 10)),
      lead |-> Setting(own, "resetLeadMin", Number(10))]

-----------------------------------------------------------------------------
(* Properties *)

(* Whatever a policy that is accepted says in its providers' parts: every   *)
(* provider is allowed what the policy allows and nothing more, is shown    *)
(* what its own checks accept, and no account and no home is there twice.   *)
(* (A claude part without accounts has one without a name.)                 *)
Honoured(p) ==
  Saved(p) /\ Listed(p) =>
    \A id \in DOMAIN Configured(p) :
      /\ Actions(View(p, id)) = Actions(p)
      /\ LegacyAccepted(View(p, id))
      /\ Get(View(p, id), "codex") # Null => CodexAccepted(Get(View(p, id), "codex"))
      /\ Once(SelectSeq(Accounts(p, id), LAMBDA slot : slot # ""))

(* A policy is moved to a later version with the same accounts, the same    *)
(* permissions and the same numbers to select by, or not at all.            *)
Kept(p, q) ==
  Saved(q) =>
    /\ Listed(q) /\ Actions(q) = Actions(p)
    /\ DOMAIN Configured(q) = DOMAIN Configured(p)
    /\ \A id \in DOMAIN Configured(p) :
         Accounts(q, id) = Accounts(p, id) /\ Numbers(q, id) = Numbers(p, id)
Migrated(p) == Saved(p) /\ Listed(p) => Kept(p, ToV2(p)) /\ Kept(p, ToV3(p))

(* A definition that is accepted can be enrolled with: a part without any   *)
(* settings of its own stands on its defaults alone.                        *)
Enrollable(controls) ==
  CatalogAccepted =>
    \A id \in DOMAIN Catalog :
      LET bare == IF DriverOf(id).provider = "claude" THEN Object([prefer |-> List(<<>>)])
                  ELSE Object([slots |-> List(<<>>)])
      IN Accepted(Put(controls, "providers", Object(id :> bare)))

=============================================================================
