----------------------------- MODULE HotReload ------------------------------
(***************************************************************************)
(* Start-up and hot reload: which blocklist and which ECHConfigList the    *)
(* server has installed, while the operator edits the TOML file and sends  *)
(* reload signals, and bootstraps of the ECHConfigList come and go.        *)
(*                                                                         *)
(* A TOML file is abstracted to what these handlers look at; rules is the  *)
(* edition of the list files it names.                                     *)
(***************************************************************************)
EXTENDS Naturals, FiniteSets

CONSTANTS
    MaxEdits, MaxSignals,     \* bounds on what the operator does
    Inlines                   \* the ech_config_list_b64 the operator may write

ASSUME HotReloadAssumption ==
    /\ MaxEdits \in Nat /\ MaxSignals \in Nat
    /\ Inlines \subseteq {"none", "good", "bad"}

VARIABLES
    toml,           \* the TOML file on disk; toml.rules counts its edits
    mode,           \* how main was called: with the TOML file, or with a bare list
    reload_path,    \* TRUE: a TOML file is re-read on reload
    phase,          \* of run: "load", "bootstrap", "run" or "exit"
    cfg,            \* Impl::cfg
    g_blocklist,    \* the installed rules: [from, rules], or NoList
    ech,            \* the snapshot the TLS adapters hold: [bytes, stamped]
    tls,            \* TRUE: the adapters built at start-up use TLS
    signals,        \* reload signals sent, not yet handled
    signalled,      \* toml.rules when the last of them was sent
    sent,           \* reload signals sent so far
    armed,          \* on_reload waits for a signal
    boots,          \* bootstraps a reload has started: [reload, inline]
    applied         \* the config of the last reload that did not fail

start == <<mode, reload_path, tls>>
operator == <<signals, signalled, sent>>
vars == <<toml, start, phase, cfg, g_blocklist, ech, operator, armed, boots, applied>>

\* The states of the TOML file.  An IP address is only parsed when it is used.
Broken == [loads |-> FALSE, lists |-> TRUE, enabled |-> FALSE, auto |-> FALSE,
           udp |-> TRUE, addrs |-> TRUE, inline |-> "none", rules |-> 0]
Default == [Broken EXCEPT !.loads = TRUE]
BadLists == [Default EXCEPT !.lists = FALSE]
Enabled == [loads : {TRUE}, lists : {TRUE}, enabled : {TRUE}, auto : BOOLEAN,
            udp : BOOLEAN, addrs : BOOLEAN, inline : Inlines, rules : {0}]
Disabled == [loads : {TRUE}, lists : {TRUE}, enabled : {FALSE}, auto : {FALSE},
             udp : BOOLEAN, addrs : {TRUE}, inline : Inlines, rules : {0}]

\* What parse_upstream makes of it: inline bytes are only tried when enabled.
parse_upstream(c) ==
    /\ c.loads
    /\ c.enabled => c.inline # "bad" /\ (c.inline # "none" \/ c.auto)
load_config(c) == [c EXCEPT !.loads = parse_upstream(c)]

Tomls(n) == {[c EXCEPT !.rules = n] : c \in {Broken, BadLists} \cup Enabled \cup Disabled}
NoList == [from |-> "none", rules |-> 0]
NoEch == [bytes |-> "none", stamped |-> FALSE]
-----------------------------------------------------------------------------
\* swap_ech stores the bytes in every adapter that has a TLS context.
\* Seeded fault: every swap is stamped as fresh.
StampAlways(from_bootstrap) == TRUE

Stamp(from_bootstrap) == from_bootstrap
swap_ech(bytes, from_bootstrap) ==
    ech' = IF tls THEN [bytes |-> bytes, stamped |-> Stamp(from_bootstrap)] ELSE ech

\* Seeded fault: the fetched bytes are used unseen.
UsableAny(bytes) == bytes # "none"

Usable(bytes) == bytes \notin {"none", "malformed"}

\* What a bootstrap can bring back.
Fetched == {"none", "malformed", "fetched"}

\* The adapters are built with the inline bytes, or without ECH.
build_from_config(c) ==
    IF c.enabled /\ ~c.udp THEN [NoEch EXCEPT !.bytes = c.inline] ELSE NoEch

\* main: read the config and build the adapters.
Load ==
    /\ phase = "load"
    /\ LET c == IF mode = "legacy" THEN Default ELSE load_config(toml)
       IN  IF c.loads
           THEN /\ phase' = "bootstrap"
                /\ cfg' = c
                /\ tls' = ~c.udp
                /\ ech' = build_from_config(c)
           ELSE phase' = "exit" /\ UNCHANGED <<cfg, tls, ech>>
    /\ UNCHANGED <<toml, mode, reload_path, g_blocklist, operator, armed, boots, applied>>

\* bootstrap_ech_at_startup, and the rest of run up to the last ctx.run.  The
\* constructor of the adapters has already installed the inline bytes.
Exit == phase' = "exit" /\ UNCHANGED <<cfg, ech, g_blocklist, armed, applied>>

Serve(c) ==
    IF ~c.lists THEN Exit
    ELSE /\ phase' = "run"
         /\ cfg' = c
         /\ g_blocklist' = [from |-> mode, rules |-> c.rules]
         /\ armed' = TRUE
         /\ applied' = c

NoFallback(c) == c.inline = "none"

bootstrap_ech_at_startup ==
    /\ phase = "bootstrap"
    /\ IF ~(cfg.enabled /\ cfg.auto) THEN Serve(cfg) /\ UNCHANGED ech
       ELSE IF ~cfg.addrs THEN Exit
       ELSE \E bytes \in Fetched :
                IF Usable(bytes)
                THEN Serve([cfg EXCEPT !.inline = bytes]) /\ swap_ech(bytes, TRUE)
                ELSE IF NoFallback(cfg) THEN Exit
                ELSE Serve(cfg) /\ UNCHANGED ech
    /\ UNCHANGED <<toml, start, operator, boots>>

\* Seeded fault: the config of start-up is used again.
FreshCfgOld == cfg

FreshCfg == IF reload_path THEN load_config(toml) ELSE cfg

\* Seeded fault: a reload that fails does not wait for the next signal.
RearmOnSuccess(failed) == ~failed

Rearm(failed) == TRUE

\* on_reload.  The list is stored before the addresses are parsed.
Stored(c) == c.loads /\ c.lists
Async(c) == c.enabled /\ c.auto /\ ~c.udp
Fails(c) == ~Stored(c) \/ (Async(c) /\ ~c.addrs)

Reload ==
    /\ phase = "run" /\ armed /\ signals > 0
    /\ signals' = signals - 1
    /\ LET c == FreshCfg
       IN  /\ g_blocklist' = IF Stored(c)
                             THEN [from |-> IF reload_path THEN "toml" ELSE mode, rules |-> c.rules]
                             ELSE g_blocklist
           /\ applied' = IF Fails(c) THEN applied ELSE c
           /\ boots' = IF Async(c) /\ ~Fails(c)
                       THEN boots \cup {[reload |-> sent - signals, inline |-> c.inline]}
                       ELSE boots
           /\ IF Async(c) \/ Fails(c) THEN UNCHANGED ech ELSE swap_ech(c.inline, FALSE)
           /\ armed' = Rearm(Fails(c))
    /\ UNCHANGED <<toml, start, phase, cfg, signalled, sent>>

\* The coroutine of a reload goes on when its bootstrap returns.
BootstrapDone(b, bytes) ==
    /\ phase = "run"
    /\ boots' = boots \ {b}
    /\ IF Usable(bytes) THEN swap_ech(bytes, TRUE) ELSE swap_ech(b.inline, FALSE)
    /\ UNCHANGED <<toml, start, phase, cfg, g_blocklist, operator, armed, applied>>

-----------------------------------------------------------------------------
\* The operator.
Edit ==
    /\ toml.rules < MaxEdits
    /\ toml' \in Tomls(toml.rules + 1)
    /\ UNCHANGED <<start, phase, cfg, g_blocklist, ech, operator, armed, boots, applied>>

\* Before run sets up reload_signals the signal has its default action.
Signal ==
    /\ phase # "exit" /\ sent < MaxSignals
    /\ IF phase = "run"
       THEN /\ signals' = signals + 1
            /\ sent' = sent + 1
            /\ signalled' = toml.rules
            /\ UNCHANGED phase
       ELSE phase' = "exit" /\ UNCHANGED operator
    /\ UNCHANGED <<toml, start, cfg, g_blocklist, ech, armed, boots, applied>>

\* stop, or SIGINT and SIGTERM: ctx.run returns, what is pending is dropped.
Stop ==
    /\ phase = "run"
    /\ phase' = "exit"
    /\ UNCHANGED <<toml, start, cfg, g_blocklist, ech, operator, armed, boots, applied>>

\* In legacy mode a TOML file may be found next to the binary, or not.
Init ==
    /\ toml \in Tomls(0)
    /\ mode \in {"toml", "legacy"}
    /\ reload_path \in {TRUE, mode = "toml"}
    /\ phase = "load"
    /\ cfg = Default /\ applied = Default
    /\ g_blocklist = NoList /\ ech = NoEch /\ tls = FALSE
    /\ signals = 0 /\ signalled = 0 /\ sent = 0
    /\ armed = FALSE /\ boots = {}

BootstrapEnds == \E b \in boots, bytes \in Fetched : BootstrapDone(b, bytes)

Next == Load \/ bootstrap_ech_at_startup \/ Reload \/ BootstrapEnds \/ Edit \/ Signal \/ Stop

Spec == Init /\ [][Next]_vars

\* The io_context goes on running the handlers that are ready.
FairSpec == Spec /\ WF_vars(Reload)
-----------------------------------------------------------------------------
\* The state has its type: in particular, what is installed as an ECHConfigList
\* is an operator's inline bytes or fetched bytes that were found to parse.
TypeOK ==
    /\ toml.rules \in 0..MaxEdits /\ toml \in Tomls(toml.rules)
    /\ mode \in {"toml", "legacy"} /\ reload_path \in BOOLEAN /\ tls \in BOOLEAN
    /\ phase \in {"load", "bootstrap", "run", "exit"}
    /\ g_blocklist \in {NoList} \cup [from : {"toml", "legacy"}, rules : 0..MaxEdits]
    /\ ech \in [bytes : Inlines \cup {"none", "fetched"}, stamped : BOOLEAN]
    /\ signals \in 0..sent /\ sent \in 0..MaxSignals /\ signalled \in 0..toml.rules
    /\ armed \in BOOLEAN
    /\ boots \subseteq [reload : 0..MaxSignals, inline : Inlines]

\* When all the signals have been handled and the file has not changed since the
\* last one was sent, the installed rules are those of the file, if it loads:
\* no series of edits, failed reloads and signals leaves an old list behind.
QuietMeansCurrent ==
    (/\ phase = "run" /\ signals = 0 /\ sent > 0 /\ reload_path
     /\ signalled = toml.rules /\ Stored(load_config(toml))) =>
        g_blocklist = [from |-> "toml", rules |-> toml.rules]

\* The fetched_at stamp tells fetched bytes from inline ones (tls.hpp: a default
\* stamp means the "bytes came from inline TOML"), over all reloads and
\* bootstraps, failed ones included.
StampMatchesBytes == ech.stamped <=> ech.bytes = "fetched"

\* Every reload signal is handled, also after reloads that failed.
SignalsAreHandled == signals > 0 ~> (signals = 0 \/ phase = "exit")

\* server.cpp: "reload failed (...) - keeping previous blocklist".
FailedReloadKeepsBlocklist ==
    [][(Reload /\ Fails(FreshCfg)) => g_blocklist' = g_blocklist]_vars

\* server.cpp: "ech bootstrap returned no bytes; keeping previous config".
FailedBootstrapKeepsEch ==
    [][\A b \in boots : (boots' = boots \ {b} /\ ech'.bytes # "fetched") => ech' = ech]_vars

\* features/11: "Disable ECH (`ech_enabled = false`), re-capture - extension
\* `0xfe0d` is gone".
DisabledMeansOff == (phase = "run" /\ ~applied.enabled) => ech.bytes = "none"

\* config.cpp: "catch malformed base64-decoded bytes at config load time instead
\* of on the first connection".
InstalledBytesParse == ech.bytes # "bad"

\* main.cpp: legacy "argv = bare blocklist" mode; "reload disabled".
LegacyKeepsItsList == (mode = "legacy" /\ phase = "run") => g_blocklist.from = "legacy"
=============================================================================
