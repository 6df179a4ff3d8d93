---------------------------- MODULE PromptSettings ----------------------------
(***************************************************************************)
(* What one prompt runs with: the overrides of the template and of the     *)
(* extensions' customizers, merged, and applied to the engine's and the    *)
(* extensions' settings when the scripts of the prompt are generated.      *)
(* The templates are reloaded by SIGHUP.                                   *)
(***************************************************************************)
EXTENDS Extensions

CONSTANTS
    Tools, Servers,     \* built-in tools; names of MCP servers
    Customizers,        \* the extensions that register a customizer
    Models,
    None,               \* an override that is not given
    Overrides,          \* what a customizer may return
    EngineTools,        \* engine.allowed_tools, or None
    EngineDenied,       \* engine.disallowed_tools, and those that extensions disable
    Known               \* the templates that the config file may define

OverrideType == [tools : (SUBSET Tools) \cup {None}, servers : (SUBSET Servers) \cup {None},
                 exclude : SUBSET Servers, extra : SUBSET Servers, deny : SUBSET Tools,
                 model : Models \cup {None}]

NoOverrides == [tools |-> None, servers |-> None, exclude |-> {}, extra |-> {},
                deny |-> {}, model |-> None]

ASSUME SettingsAssumption ==
    /\ Customizers \subseteq Exts
    /\ \A s \in (SUBSET Tools) \cup (SUBSET Servers) : s # None
    /\ EngineTools \in (SUBSET Tools) \cup {None}
    /\ EngineDenied \subseteq Tools
    /\ Overrides \subseteq OverrideType
    /\ Known \subseteq OverrideType \cup {None}

VARIABLES
    template,   \* the overrides of the one template in use, None: it is unknown
    prompt      \* history: what a prompt was given and got, until the next step

svars == <<evars, template, prompt>>

NoPrompt == [given |-> <<>>, tools |-> None, servers |-> {}, denied |-> {}, model |-> None]

SettingsInit == ExtInit /\ template \in Known /\ prompt = NoPrompt

\* Mutant: the last allowlist wins.
Meet_Last(a, b) == IF b = None THEN a ELSE b

\* _template_customizer: an unknown template leaves nothing.
FromTemplate ==
    IF template = None THEN [NoOverrides EXCEPT !.tools = {}, !.servers = {}] ELSE template

\* Two allowlists: both apply.
Meet(a, b) == IF a = None THEN b ELSE IF b = None THEN a ELSE a \cap b

Merge(a, b) ==
    [tools |-> Meet(a.tools, b.tools), servers |-> Meet(a.servers, b.servers),
     exclude |-> a.exclude \cup b.exclude, extra |-> a.extra \cup b.extra,
     deny |-> a.deny \cup b.deny, model |-> IF a.model = None THEN b.model ELSE a.model]

\* _collect_overrides: in the order of registration, the template first.
Collected(given) ==
    LET merged[i \in 0..Len(given)] ==
          IF i = 0 THEN NoOverrides ELSE Merge(merged[i - 1], given[i])
    IN merged[Len(given)]

\* _generate_mcp_config: the registered servers that are allowed, without the
\* excluded ones, and the extra ones that are allowed.
ServersFor(o) ==
    LET allowed == IF o.servers = None THEN Servers ELSE o.servers IN
      ((ToSet(registered) \cap Servers \cap allowed) \ o.exclude) \cup (o.extra \cap allowed)

Customizing == Customizers \cap ToSet(registered)

\* _generate_run_scripts, for a session with or without the template.  A
\* customizer that raises, or returns nothing, is passed over.
RunPrompt ==
    /\ phase \in {"starting", "running"} /\ prompt = NoPrompt
    /\ \E of \in {<<>>, <<FromTemplate>>},
          outs \in [1..Cardinality(Customizing) -> Overrides \cup {NoOverrides}] :
         LET given == of \o outs
             o == Collected(given) IN
           prompt' = [given |-> given, tools |-> Meet(EngineTools, o.tools),
                       servers |-> ServersFor(o),
                       denied |-> EngineDenied \cup o.deny, model |-> o.model]
    /\ UNCHANGED <<evars, template>>

\* SIGHUP, once everything runs: other definitions, or none, of the template.
ReloadTemplates ==
    /\ phase = "running"
    /\ template' \in Known
    /\ UNCHANGED evars /\ prompt' = NoPrompt

SettingsNext ==
    (ExtNext /\ UNCHANGED template /\ prompt' = NoPrompt) \/ RunPrompt \/ ReloadTemplates

SettingsSpec == SettingsInit /\ [][SettingsNext]_svars

-----------------------------------------------------------------------------
(* Properties.                                                             *)

Allows(allowlist, x) == allowlist = None \/ x \in allowlist

\* No tool and no server that any customizer's allowlist leaves out is given
\* to the prompt, whatever the other customizers return, in whatever order,
\* and even if one of them adds the server itself; nor a tool that the engine
\* does not allow.
NeverWidened ==
    \A i \in DOMAIN prompt.given :
       LET o == prompt.given[i] IN
         /\ prompt.tools # None \/ o.tools = None
         /\ \A t \in Tools : prompt.tools # None /\ t \in prompt.tools
                               => Allows(o.tools, t) /\ Allows(EngineTools, t)
         /\ \A m \in prompt.servers : Allows(o.servers, m)
         /\ o.deny \subseteq prompt.denied

=============================================================================
