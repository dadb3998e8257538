-------------------------- MODULE HotReloadProofs ---------------------------
(***************************************************************************)
(* The safety properties of HotReload for any number of edits and signals. *)
(***************************************************************************)
EXTENDS HotReload, TLAPS

\* A config whose inline bytes are among I and whose edition is among R.
Config(I, R) == [loads : BOOLEAN, lists : BOOLEAN, enabled : BOOLEAN, auto : BOOLEAN,
                 udp : BOOLEAN, addrs : BOOLEAN, inline : I, rules : R]

\* Without a TOML file to read again the config stays the built-in one, so no
\* fetched bytes come back through it; before run there are no signals.
Consistent ==
    /\ cfg \in Config(Inlines \cup {"none", "fetched"}, 0..MaxEdits)
    /\ ~reload_path => mode = "legacy"
    /\ mode = "legacy" => cfg = Default
    /\ phase \in {"load", "bootstrap"} => sent = 0

IInv == TypeOK /\ Consistent /\ StampMatchesBytes /\ QuietMeansCurrent

\* What the operator may write: a config of the edition, with inline bytes of
\* theirs where ECH is enabled.
LEMMA TomlType ==
    ASSUME NEW n, NEW c \in Tomls(n)
    PROVE  /\ c \in Config(Inlines \cup {"none"}, {n})
           /\ c.enabled => c.inline \in Inlines
<1>1. PICK d \in {Broken, BadLists} \cup Enabled \cup Disabled : c = [d EXCEPT !.rules = n]
  BY DEF Tomls
<1>2. d \in Config(Inlines \cup {"none"}, {0}) /\ (d.enabled => d.inline \in Inlines)
  <2>1. CASE d = Broken
    BY <2>1 DEF Broken, Config
  <2>2. CASE d = BadLists
    BY <2>2 DEF BadLists, Default, Broken, Config
  <2>3. CASE d \in Enabled
    BY <2>3 DEF Enabled, Config
  <2>4. CASE d \in Disabled
    BY <2>4 DEF Disabled, Config
  <2> QED BY <1>1, <2>1, <2>2, <2>3, <2>4
<1> QED BY <1>1, <1>2 DEF Config

\* The built-in config.
LEMMA DefaultType ==
    /\ Default \in Config(Inlines \cup {"none"}, 0..MaxEdits)
    /\ Default \in Config(Inlines \cup {"none", "fetched"}, 0..MaxEdits)
    /\ ~Default.enabled
<1>1. 0 \in 0..MaxEdits
  BY HotReloadAssumption
<1>2. /\ Broken \in Config(Inlines \cup {"none"}, 0..MaxEdits)
      /\ Broken \in Config(Inlines \cup {"none", "fetched"}, 0..MaxEdits)
  BY <1>1 DEF Broken, Config
<1>3. ~Broken.enabled
  BY DEF Broken
<1> QED BY <1>2, <1>3 DEF Default, Config

\* The config a reload works with: the file's, or the built-in one.
LEMMA FreshType ==
    ASSUME IInv
    PROVE  /\ FreshCfg \in Config(Inlines \cup {"none"}, 0..MaxEdits)
           /\ FreshCfg.enabled => FreshCfg.inline \in Inlines
           /\ reload_path => FreshCfg = load_config(toml) /\ FreshCfg.rules = toml.rules
<1>1. CASE reload_path
  <2>1. toml \in Config(Inlines \cup {"none"}, 0..MaxEdits) /\ (toml.enabled => toml.inline \in Inlines)
    BY TomlType DEF IInv, TypeOK, Config
  <2>2. parse_upstream(toml) \in BOOLEAN
    BY <2>1 DEF parse_upstream, Config
  <2>3. PICK v \in BOOLEAN : FreshCfg = [toml EXCEPT !.loads = v]
    BY <1>1, <2>2 DEF FreshCfg, load_config
  <2>4. FreshCfg \in Config(Inlines \cup {"none"}, 0..MaxEdits)
    BY <2>1, <2>3 DEF Config
  <2>5. /\ FreshCfg.enabled = toml.enabled /\ FreshCfg.inline = toml.inline
        /\ FreshCfg.rules = toml.rules
    BY <2>1, <2>3 DEF Config
  <2>6. FreshCfg = load_config(toml)
    BY <1>1 DEF FreshCfg
  <2> QED BY <2>1, <2>4, <2>5, <2>6
<1>2. CASE ~reload_path
  <2>1. FreshCfg = Default
    BY <1>2 DEF IInv, Consistent, FreshCfg
  <2> QED BY <1>2, <2>1, DefaultType
<1> QED BY <1>1, <1>2

\* The invariant holds when main starts.
LEMMA InitEstablishes == Init => IInv
<1> SUFFICES ASSUME Init PROVE IInv
  OBVIOUS
<1>1. toml.rules = 0
  BY TomlType DEF Init, Config
<1>2. TypeOK
  <2>1. NoEch \in [bytes : Inlines \cup {"none", "fetched"}, stamped : BOOLEAN]
    BY DEF NoEch
  <2>2. reload_path \in BOOLEAN
    BY DEF Init
  <2>3. toml.rules \in 0..MaxEdits /\ 0 \in 0..MaxSignals /\ 0 \in 0..0
    BY <1>1, HotReloadAssumption
  <2>4. toml \in Tomls(toml.rules)
    BY <1>1 DEF Init
  <2> QED BY <1>1, <2>1, <2>2, <2>3, <2>4 DEF Init, TypeOK
<1>3. Consistent
  <2>2. ~reload_path => mode = "legacy"
    BY Zenon DEF Init
  <2> QED BY <2>2, DefaultType DEF Init, Consistent
<1>4. StampMatchesBytes /\ QuietMeansCurrent
  BY DEF Init, StampMatchesBytes, QuietMeansCurrent, NoEch
<1> QED BY <1>2, <1>3, <1>4 DEF IInv

\* Whoever swaps, the stamp goes with the bytes, and bytes that were not fetched
\* are an operator's.
LEMMA SwapKeeps ==
    ASSUME IInv, NEW bytes, NEW fetched \in BOOLEAN, swap_ech(bytes, fetched),
           fetched => bytes = "fetched", ~fetched => bytes \in Inlines \cup {"none"}
    PROVE  /\ ech' \in [bytes : Inlines \cup {"none", "fetched"}, stamped : BOOLEAN]
           /\ StampMatchesBytes'
<1>1. CASE ~tls
  BY <1>1 DEF swap_ech, IInv, TypeOK, StampMatchesBytes
<1>2. CASE tls /\ fetched
  BY <1>2 DEF swap_ech, Stamp, StampMatchesBytes
<1>3. CASE tls /\ ~fetched
  <2>1. ech' = [bytes |-> bytes, stamped |-> FALSE] /\ bytes # "fetched"
    BY <1>3, HotReloadAssumption DEF swap_ech, Stamp
  <2> QED BY <1>3, <2>1 DEF StampMatchesBytes
<1> QED BY <1>1, <1>2, <1>3

\* main: the adapters start with the inline bytes or without ECH.
LEMMA LoadKeeps == IInv /\ Load => IInv'
<1> SUFFICES ASSUME IInv, Load PROVE IInv'
  OBVIOUS
<1> DEFINE c == IF mode = "legacy" THEN Default ELSE load_config(toml)
<1>1. c \in Config(Inlines \cup {"none"}, 0..MaxEdits) /\ (mode = "legacy" => c = Default)
  <2>1. toml \in Config(Inlines \cup {"none"}, 0..MaxEdits)
    BY TomlType DEF IInv, TypeOK, Config
  <2>2. parse_upstream(toml) \in BOOLEAN
    BY <2>1 DEF parse_upstream, Config
  <2>3. load_config(toml) \in Config(Inlines \cup {"none"}, 0..MaxEdits)
    BY <2>1, <2>2 DEF load_config, Config
  <2> QED BY <2>3, DefaultType
<1>2. UNCHANGED <<toml, mode, reload_path, g_blocklist, operator, armed, boots, applied>>
  BY DEF Load
<1>3. /\ phase' \in {"bootstrap", "exit"} /\ cfg' \in {cfg, c}
      /\ tls' \in {tls, ~c.udp} /\ ech' \in {ech, build_from_config(c)}
  BY DEF Load
<1>4. sent' = 0
  BY <1>2 DEF Load, IInv, Consistent, operator
<1>5. /\ build_from_config(c) \in [bytes : Inlines \cup {"none", "fetched"}, stamped : BOOLEAN]
      /\ ~build_from_config(c).stamped /\ build_from_config(c).bytes # "fetched"
  <2>1. c.inline \in Inlines \cup {"none"} /\ c.inline # "fetched"
    BY <1>1, HotReloadAssumption DEF Config
  <2> HIDE DEF c
  <2> QED BY <2>1 DEF build_from_config, NoEch
<1>6. tls' \in BOOLEAN
  BY <1>1, <1>3 DEF IInv, TypeOK, Config
<1> HIDE DEF c
<1>7. StampMatchesBytes'
  BY <1>3, <1>5 DEF IInv, StampMatchesBytes
<1>8. TypeOK'
  BY <1>2, <1>3, <1>5, <1>6 DEF IInv, TypeOK, operator
<1>9. Consistent'
  <2>1. cfg' \in Config(Inlines \cup {"none", "fetched"}, 0..MaxEdits)
    BY <1>1, <1>3 DEF IInv, Consistent, Config
  <2> QED BY <1>1, <1>2, <1>3, <1>4, <2>1 DEF IInv, Consistent
<1>10. QuietMeansCurrent'
  BY <1>3 DEF QuietMeansCurrent
<1> QED BY <1>7, <1>8, <1>9, <1>10 DEF IInv

\* Start-up: the rest of run, with the config as it is or with fetched bytes in it.
LEMMA StartupKeeps == IInv /\ bootstrap_ech_at_startup => IInv'
<1> SUFFICES ASSUME IInv, bootstrap_ech_at_startup PROVE IInv'
  OBVIOUS
<1>1. phase = "bootstrap" /\ sent = 0 /\ UNCHANGED <<toml, start, operator, boots>>
  BY DEF bootstrap_ech_at_startup, IInv, Consistent
<1>2. PICK c : /\ c \in Config(Inlines \cup {"none", "fetched"}, 0..MaxEdits)
               /\ mode = "legacy" => c = Default
               /\ Exit \/ Serve(c)
               /\ \/ UNCHANGED ech
                  \/ swap_ech("fetched", TRUE)
  <2>1. cfg \in Config(Inlines \cup {"none", "fetched"}, 0..MaxEdits) /\ (mode = "legacy" => cfg = Default)
    BY DEF IInv, Consistent
  <2>2. CASE ~(cfg.enabled /\ cfg.auto) \/ ~cfg.addrs
    BY <2>1, <2>2 DEF bootstrap_ech_at_startup, Exit
  <2>3. CASE cfg.enabled /\ cfg.auto /\ cfg.addrs
    <3>1. mode # "legacy"
      BY <2>1, <2>3, DefaultType
    <3>2. PICK bytes \in Fetched :
                IF Usable(bytes)
                THEN Serve([cfg EXCEPT !.inline = bytes]) /\ swap_ech(bytes, TRUE)
                ELSE IF NoFallback(cfg) THEN Exit
                ELSE Serve(cfg) /\ UNCHANGED ech
      BY <2>3 DEF bootstrap_ech_at_startup
    <3>3. CASE Usable(bytes)
      <4>1. bytes = "fetched"
        BY <3>3 DEF Usable, Fetched
      <4>2. [cfg EXCEPT !.inline = bytes] \in Config(Inlines \cup {"none", "fetched"}, 0..MaxEdits)
        BY <2>1, <4>1 DEF Config
      <4> QED BY <3>1, <3>2, <3>3, <4>1, <4>2
    <3>4. CASE ~Usable(bytes)
      BY <2>1, <3>2, <3>4 DEF Exit
    <3> QED BY <3>3, <3>4
  <2> QED BY <2>2, <2>3
<1>3. /\ ech' \in [bytes : Inlines \cup {"none", "fetched"}, stamped : BOOLEAN]
      /\ StampMatchesBytes'
  <2>1. CASE UNCHANGED ech
    BY <2>1 DEF IInv, TypeOK, StampMatchesBytes
  <2>2. CASE swap_ech("fetched", TRUE)
    BY <2>2, SwapKeeps
  <2> QED BY <1>2, <2>1, <2>2
<1>4. /\ phase' \in {"run", "exit"} /\ cfg' \in {cfg, c} /\ armed' \in {armed, TRUE}
      /\ g_blocklist' \in {g_blocklist, [from |-> mode, rules |-> c.rules]}
  BY <1>2 DEF Exit, Serve
<1>5. TypeOK'
  <2>1. g_blocklist' \in {NoList} \cup [from : {"toml", "legacy"}, rules : 0..MaxEdits]
    BY <1>2, <1>4 DEF IInv, TypeOK, Config
  <2> QED BY <1>1, <1>3, <1>4, <2>1 DEF IInv, TypeOK, start, operator
<1>6. Consistent'
  BY <1>1, <1>2, <1>4 DEF IInv, Consistent, start
<1>7. QuietMeansCurrent'
  <2>1. sent' = 0
    BY <1>1 DEF operator
  <2> QED BY <2>1 DEF QuietMeansCurrent
<1> QED BY <1>3, <1>5, <1>6, <1>7 DEF IInv

\* on_reload: when it takes the last signal and the file it reads can be stored,
\* the list it installs is the file's, whether or not the rest of it fails.
LEMMA ReloadKeeps == IInv /\ Reload => IInv'
<1> SUFFICES ASSUME IInv, Reload PROVE IInv'
  OBVIOUS
<1>1. /\ phase = "run" /\ signals > 0 /\ signals' = signals - 1
      /\ UNCHANGED <<toml, start, phase, cfg, signalled, sent>>
  BY DEF Reload
<1>2. PICK c : c = FreshCfg
  OBVIOUS
<1>3. /\ c \in Config(Inlines \cup {"none"}, 0..MaxEdits)
      /\ c.enabled => c.inline \in Inlines
      /\ reload_path => c = load_config(toml) /\ c.rules = toml.rules
  BY <1>2, FreshType
<1>4. /\ g_blocklist' = IF Stored(c)
                        THEN [from |-> IF reload_path THEN "toml" ELSE mode, rules |-> c.rules]
                        ELSE g_blocklist
      /\ boots' = IF Async(c) /\ ~Fails(c)
                  THEN boots \cup {[reload |-> sent - signals, inline |-> c.inline]}
                  ELSE boots
      /\ UNCHANGED ech \/ swap_ech(c.inline, FALSE)
      /\ armed' = TRUE
  BY <1>2 DEF Reload, Rearm
<1>5. /\ ech' \in [bytes : Inlines \cup {"none", "fetched"}, stamped : BOOLEAN]
      /\ StampMatchesBytes'
  <2>1. CASE UNCHANGED ech
    BY <2>1 DEF IInv, TypeOK, StampMatchesBytes
  <2>2. CASE swap_ech(c.inline, FALSE)
    <3>1. c.inline \in Inlines \cup {"none"}
      BY <1>3 DEF Config
    <3> QED BY <2>2, <3>1, SwapKeeps
  <2> QED BY <1>4, <2>1, <2>2
<1>6. g_blocklist' \in {NoList} \cup [from : {"toml", "legacy"}, rules : 0..MaxEdits]
  BY <1>3, <1>4 DEF IInv, TypeOK, Config
<1>7. boots' \subseteq [reload : 0..MaxSignals, inline : Inlines]
  <2>1. sent - signals \in 0..MaxSignals
    BY <1>1, HotReloadAssumption DEF IInv, TypeOK
  <2>2. Async(c) => c.inline \in Inlines
    BY <1>3 DEF Async
  <2> QED BY <1>4, <2>1, <2>2 DEF IInv, TypeOK
<1>8. signals' \in 0..sent'
  BY <1>1, HotReloadAssumption DEF IInv, TypeOK
<1>9. TypeOK'
  BY <1>1, <1>4, <1>5, <1>6, <1>7, <1>8 DEF IInv, TypeOK, start
<1>10. Consistent'
  BY <1>1 DEF IInv, Consistent, start
<1>11. QuietMeansCurrent'
  <2> SUFFICES ASSUME reload_path, Stored(load_config(toml))
               PROVE  g_blocklist' = [from |-> "toml", rules |-> toml.rules]
    BY <1>1 DEF QuietMeansCurrent, start, Stored, load_config, parse_upstream
  <2> QED BY <1>3, <1>4
<1> QED BY <1>5, <1>9, <1>10, <1>11 DEF IInv

\* The second half of a reload: fetched bytes with a stamp, or the inline ones
\* without.
LEMMA BootstrapKeeps ==
    ASSUME IInv, NEW b \in boots, NEW bytes \in Fetched, BootstrapDone(b, bytes)
    PROVE  IInv'
<1>1. /\ boots' = boots \ {b}
      /\ UNCHANGED <<toml, start, phase, cfg, g_blocklist, operator, armed, applied>>
  BY DEF BootstrapDone
<1>2. /\ ech' \in [bytes : Inlines \cup {"none", "fetched"}, stamped : BOOLEAN]
      /\ StampMatchesBytes'
  <2>1. CASE Usable(bytes)
    <3>1. bytes = "fetched" /\ swap_ech(bytes, TRUE)
      BY <2>1 DEF Usable, Fetched, BootstrapDone
    <3> QED BY <3>1, SwapKeeps
  <2>2. CASE ~Usable(bytes)
    <3>1. b.inline \in Inlines /\ swap_ech(b.inline, FALSE)
      BY <2>2 DEF BootstrapDone, IInv, TypeOK
    <3> QED BY <3>1, SwapKeeps
  <2> QED BY <2>1, <2>2
<1>3. TypeOK'
  BY <1>1, <1>2 DEF IInv, TypeOK, start, operator
<1>4. Consistent'
  BY <1>1 DEF IInv, Consistent, start, operator
<1>5. QuietMeansCurrent'
  BY <1>1 DEF IInv, QuietMeansCurrent, start, operator, Stored, load_config, parse_upstream
<1> QED BY <1>2, <1>3, <1>4, <1>5 DEF IInv

\* The operator's steps: an edit makes the last signal older than the file, and
\* a signal is one more to be handled.
LEMMA OperatorKeeps == IInv /\ (Edit \/ Signal \/ Stop) => IInv'
<1> SUFFICES ASSUME IInv, Edit \/ Signal \/ Stop PROVE IInv'
  OBVIOUS
<1>1. UNCHANGED <<start, cfg, g_blocklist, ech, armed, boots>>
  BY DEF Edit, Signal, Stop
<1>2. StampMatchesBytes'
  BY <1>1 DEF IInv, StampMatchesBytes
<1>3. CASE Edit
  <2>1. /\ UNCHANGED <<phase, operator>>
        /\ toml' \in Tomls(toml.rules + 1) /\ toml.rules + 1 \in 0..MaxEdits
    BY <1>3, HotReloadAssumption DEF Edit, IInv, TypeOK
  <2>2. toml'.rules = toml.rules + 1
    BY <2>1, TomlType DEF Config
  <2>3. signalled' \in 0..toml'.rules /\ signalled' # toml'.rules
    BY <2>1, <2>2, HotReloadAssumption DEF IInv, TypeOK, operator
  <2>4. TypeOK'
    BY <1>1, <2>1, <2>2, <2>3 DEF IInv, TypeOK, start, operator
  <2>5. Consistent' /\ QuietMeansCurrent'
    BY <1>1, <2>1, <2>3 DEF IInv, Consistent, QuietMeansCurrent, start, operator
  <2> QED BY <1>2, <2>4, <2>5 DEF IInv
<1>4. CASE Signal /\ phase = "run"
  <2>1. /\ UNCHANGED <<phase, toml>>
        /\ signals' = signals + 1 /\ sent' = sent + 1 /\ signalled' = toml.rules
        /\ sent < MaxSignals
    BY <1>4 DEF Signal
  <2>2. signals' \in 0..sent' /\ sent' \in 0..MaxSignals /\ signals' # 0
    BY <2>1, HotReloadAssumption DEF IInv, TypeOK
  <2>3. signalled' \in 0..toml'.rules
    BY <2>1 DEF IInv, TypeOK
  <2>4. TypeOK'
    BY <1>1, <2>1, <2>2, <2>3 DEF IInv, TypeOK, start
  <2>5. Consistent' /\ QuietMeansCurrent'
    BY <1>1, <1>4, <2>1, <2>2 DEF IInv, Consistent, QuietMeansCurrent, start
  <2> QED BY <1>2, <2>4, <2>5 DEF IInv
<1>5. CASE Stop \/ (Signal /\ phase # "run")
  <2>1. phase' = "exit" /\ UNCHANGED <<toml, operator>>
    BY <1>5 DEF Stop, Signal
  <2>2. TypeOK'
    BY <1>1, <2>1 DEF IInv, TypeOK, start, operator
  <2>3. Consistent' /\ QuietMeansCurrent'
    BY <1>1, <2>1 DEF IInv, Consistent, QuietMeansCurrent, start, operator
  <2> QED BY <1>2, <2>2, <2>3 DEF IInv
<1> QED BY <1>3, <1>4, <1>5

\* The invariant holds in every reachable state.
LEMMA Invariance == Spec => []IInv
<1>1. IInv /\ UNCHANGED vars => IInv'
  BY DEF IInv, TypeOK, Consistent, StampMatchesBytes, QuietMeansCurrent, vars, start, operator,
         Stored, load_config, parse_upstream
<1>2. IInv /\ BootstrapEnds => IInv'
  BY BootstrapKeeps DEF BootstrapEnds
<1>3. IInv /\ [Next]_vars => IInv'
  BY <1>1, <1>2, LoadKeeps, StartupKeeps, ReloadKeeps, OperatorKeeps DEF Next
<1> QED BY <1>3, InitEstablishes, PTL DEF Spec

-----------------------------------------------------------------------------
\* Every variable keeps its type: nothing is installed as an ECHConfigList but an
\* operator's inline bytes and fetched bytes that parse.
THEOREM TypeCorrect == Spec => []TypeOK
<1>1. IInv => TypeOK
  BY DEF IInv
<1> QED BY <1>1, Invariance, PTL

\* Once the signals are handled and the file is as it was when the last was sent,
\* the installed rules are the file's, if it loads.
THEOREM QuietIsCurrent == Spec => []QuietMeansCurrent
<1>1. IInv => QuietMeansCurrent
  BY DEF IInv
<1> QED BY <1>1, Invariance, PTL

\* The stamp tells fetched bytes from inline ones, over all reloads, bootstraps
\* and failures of either.
THEOREM StampIsTrue == Spec => []StampMatchesBytes
<1>1. IInv => StampMatchesBytes
  BY DEF IInv
<1> QED BY <1>1, Invariance, PTL
=============================================================================
