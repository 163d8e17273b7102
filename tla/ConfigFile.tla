----------------------------- MODULE ConfigFile -----------------------------
(***************************************************************************)
(* The configuration of the Vita and its file: config.c, config_hosts.c,   *)
(* config_migration.c and the token storage of token_crypto.c.             *)
(*                                                                         *)
(* The file is what a program that reads it makes of it: is it TOML, has   *)
(* it a good [general] section, what does each part hold.  A token is      *)
(* there in the clear (as old versions wrote it), encrypted for this Vita, *)
(* or encrypted for another one.  show_latency stands for the settings     *)
(* that old versions wrote into the section of a custom map or before any  *)
(* section.  To save is to truncate the file and to write its parts in     *)
(* order; the power or the room on the card may end between any two lines  *)
(* or within one, which then is no TOML.  Opening the file does not fail.  *)
(***************************************************************************)
EXTENDS Naturals, FiniteSets

CONSTANTS
    Consoles,       \* the consoles a user may register
    MaxRegistered   \* MAX_REGISTERED_HOSTS

ConfigAssumption == IsFiniteSet(Consoles) /\ MaxRegistered \in Nat \ {0}

VARIABLES
    cfg,        \* context.config
    file,       \* the file on the card
    job,        \* off, run, or save
    written,    \* how many parts of the file a save has written
    failing,    \* the tokens whose encryption fails in this save
    short,      \* (history) is the file one whose save was cut short
    owned       \* (history) what the user has set up, less what was cut off

vars == <<cfg, file, job, written, failing, short, owned>>

Kinds == {"access", "refresh", "npsso"}
Places == {"settings", "custom_map", "root"}

\* No token, no host and what config_set_defaults sets.
Defaults ==
    [tokens |-> {}, expiry |-> FALSE, latency |-> TRUE, registered |-> {}, manual |-> {}]

-----------------------------------------------------------------------------
(* Writing.                                                                 *)

Parts == 6      \* [general]; the tokens; the other settings; maps; the manual; the registered hosts

\* token_crypto_encrypt refuses no token of its own, but may fail for lack of a key, of
\* randomness or of memory.
Encrypted(c, fails) == c.tokens \ fails

\* What config_serialize has put into the file after its first n parts.  The expiry only goes
\* with a token that was written, and the NPSSO is none.
Prefix(c, n, fails) ==
    [toml |-> TRUE, queueDepth |-> TRUE, general |-> n >= 1, tooHigh |-> FALSE,
     ours |-> IF n >= 2 THEN Encrypted(c, fails) ELSE {}, foreign |-> {}, plain |-> {},
     expiry |-> n >= 2 /\ c.expiry /\ Encrypted(c, fails) \ {"npsso"} # {},
     latency |-> [p \in Places |-> IF p = "settings" /\ n >= 3 THEN {c.latency} ELSE {}],
     manual |-> IF n >= 5 THEN c.manual ELSE {},
     registered |-> IF n >= 6 THEN c.registered ELSE {}]

\* A file that ends within a line, or with some of the tokens or hosts.
Torn(c, n, fails) ==
    {Prefix(c, n, fails), [Prefix(c, n, fails) EXCEPT !.toml = FALSE]}
    \cup (IF n = 1 THEN {[Prefix(c, n, fails) EXCEPT !.ours = some] :
                             some \in SUBSET Encrypted(c, fails)} ELSE {})
    \cup (IF n = 4 THEN {[Prefix(c, n, fails) EXCEPT !.manual = some] :
                             some \in SUBSET c.manual} ELSE {})
    \cup (IF n = 5 THEN {[Prefix(c, n, fails) EXCEPT !.registered = some] :
                             some \in SUBSET c.registered} ELSE {})

-----------------------------------------------------------------------------
(* Reading.                                                                 *)

\* load_token_from_encrypted with the caller's fallback to a token in the clear, which is for
\* a key that is absent and not for one that does not decrypt.
TokensByAnyKey(f) == f.ours \cup f.plain
Tokens(f) == f.ours \cup (f.plain \ (f.ours \cup f.foreign))
PlainUsed(f) == (f.plain \ (f.ours \cup f.foreign)) # {}

\* parse_bool_setting_with_migration: the settings, a custom map's section, the root.
PlaceOf(f) ==
    IF f.latency["settings"] # {} THEN "settings"
    ELSE IF f.latency["custom_map"] # {} THEN "custom_map"
    ELSE IF f.latency["root"] # {} THEN "root" ELSE "none"
LatencyFromSettings(f) ==
    IF f.latency["settings"] = {} THEN FALSE ELSE CHOOSE v \in f.latency["settings"] : TRUE
Latency(f) == PlaceOf(f) # "none" /\ TRUE \in f.latency[PlaceOf(f)]

\* config_parse_registered_hosts, and config_parse_manual_hosts, which clones the host that
\* is registered under the same address.
Parsed(f) ==
    LET kept == CHOOSE s \in SUBSET f.registered :
                   Cardinality(s) = (IF Cardinality(f.registered) < MaxRegistered
                                     THEN Cardinality(f.registered) ELSE MaxRegistered)
    IN [tokens |-> Tokens(f), expiry |-> f.expiry, latency |-> Latency(f),
        registered |-> kept, manual |-> f.manual \cap kept]

\* persist_migrated_config_if_needed.
Migrates(f) == PlainUsed(f) \/ PlaceOf(f) \in {"custom_map", "root"} \/ f.tooHigh

Readable(f) == f.toml /\ f.general

\* The file after config_fix_legacy_queue_depth: one entry is put right and nothing else.
Fixed(f) == IF f.toml /\ ~f.queueDepth THEN [f EXCEPT !.queueDepth = TRUE] ELSE f

-----------------------------------------------------------------------------
\* A setting that is written in one place.
Only(place, value) == [p \in Places |-> IF p = place THEN {value} ELSE {}]

\* The files that versions of the program have left behind.
Untouched ==
    [toml : BOOLEAN, queueDepth : BOOLEAN, general : BOOLEAN, tooHigh : BOOLEAN,
     ours : {{}, Kinds}, foreign : {{}, {"access"}}, plain : {{}, {"access", "refresh"}},
     expiry : BOOLEAN, latency : {Only(p, v) : p \in Places, v \in BOOLEAN},
     manual : SUBSET Consoles, registered : SUBSET Consoles]

\* A file of this version, with nothing in it yet.
SavedByNow ==
    [toml |-> TRUE, queueDepth |-> TRUE, general |-> TRUE, tooHigh |-> FALSE, ours |-> {},
     foreign |-> {}, plain |-> {}, expiry |-> FALSE,
     latency |-> Only("settings", FALSE), manual |-> {}, registered |-> {}]

Init ==
    /\ cfg = Defaults /\ job = "off" /\ written = 0 /\ failing = {} /\ short = FALSE
    /\ file \in {f \in Untouched :
          /\ Readable(f)
          /\ f.ours \cap f.foreign = {} /\ f.manual \subseteq f.registered
          /\ Cardinality(f.registered) <= MaxRegistered
          /\ f.expiry => (f.ours \cup f.foreign \cup f.plain) # {}}
    /\ owned = [tokens |-> file.ours \cup (file.plain \ file.foreign),
                latency |-> (\E p \in Places : TRUE \in file.latency[p]),
                registered |-> file.registered, manual |-> file.manual]

\* config_serialize begins, with the encryption of some tokens going to fail.
Saves(c) ==
    /\ job' = "save" /\ written' = 0 /\ failing' \in SUBSET c.tokens
    /\ file' = Prefix(c, 0, {}) /\ short' = TRUE

\* config_parse.  What cannot be read leaves the defaults, and the file as it is.
Load ==
    /\ job = "off"
    /\ LET f == Fixed(file)
           c == IF Readable(f) THEN Parsed(f) ELSE Defaults
       IN /\ cfg' = c
          /\ owned' = IF ~short THEN owned
                      ELSE [tokens |-> owned.tokens \cap c.tokens, latency |-> c.latency,
                            registered |-> owned.registered \cap c.registered,
                            manual |-> owned.manual \cap c.manual]
          /\ IF Readable(f) /\ Migrates(f) THEN Saves(c)
             ELSE job' = "run" /\ file' = f /\ UNCHANGED <<written, failing, short>>

SavePart ==
    /\ job = "save" /\ written < Parts
    /\ written' = written + 1 /\ file' = Prefix(cfg, written + 1, failing)
    /\ UNCHANGED <<cfg, job, failing, short, owned>>
SaveEnds ==
    /\ job = "save" /\ written = Parts /\ job' = "run" /\ short' = FALSE
    /\ UNCHANGED <<cfg, file, written, failing, owned>>

\* The card is full: config_serialize returns false, the program goes on with what it has.
SaveFails ==
    /\ job = "save" /\ written < Parts /\ job' = "run"
    /\ file' \in Torn(cfg, written, failing)
    /\ UNCHANGED <<cfg, written, failing, short, owned>>

\* What could not be encrypted is gone with the program.
PowerCut ==
    /\ job # "off" /\ job' = "off" /\ cfg' = Defaults
    /\ file' \in (IF job = "save" THEN Torn(cfg, written, failing) ELSE {file})
    /\ owned' = [owned EXCEPT !.tokens = @ \ failing]
    /\ written' = 0 /\ failing' = {}
    /\ UNCHANGED short

-----------------------------------------------------------------------------
(* What the user changes, which is saved at once.                           *)

Changes(c) == job = "run" /\ cfg' = c /\ Saves(c)

Register(c) ==
    /\ c \notin cfg.registered /\ Cardinality(cfg.registered) < MaxRegistered
    /\ Changes([cfg EXCEPT !.registered = @ \cup {c}])
    /\ owned' = [owned EXCEPT !.registered = @ \cup {c}]
SignIn ==
    /\ cfg.tokens # Kinds
    /\ Changes([cfg EXCEPT !.tokens = Kinds, !.expiry = TRUE])
    /\ owned' = [owned EXCEPT !.tokens = Kinds]
SignOut ==
    /\ "access" \in cfg.tokens
    /\ Changes([cfg EXCEPT !.tokens = @ \cap {"npsso"}, !.expiry = FALSE])
    /\ owned' = [owned EXCEPT !.tokens = @ \cap {"npsso"}]
Toggle ==
    /\ Changes([cfg EXCEPT !.latency = ~@])
    /\ owned' = [owned EXCEPT !.latency = ~@]

Next == Load \/ SavePart \/ SaveEnds \/ SaveFails \/ PowerCut \/ (\E c \in Consoles : Register(c))
        \/ SignIn \/ SignOut \/ Toggle

Spec == Init /\ [][Next]_vars

-----------------------------------------------------------------------------
\* The configuration keeps its types.
TypeOK ==
    /\ job \in {"off", "run", "save"} /\ written \in 0..Parts /\ failing \subseteq Kinds
    /\ {short, cfg.expiry, cfg.latency} \subseteq BOOLEAN /\ cfg.tokens \subseteq Kinds
    /\ cfg.registered \subseteq Consoles /\ cfg.manual \subseteq Consoles

\* Whatever version wrote the file and through every migration the program runs with the
\* consoles, the setting and the login of the user, as long as no save was cut short: a
\* migration that reads less than it then writes over would lose it for good.  And even a
\* file that was cut short gives no console and no login the user has not set up
\* (config.c, 206-313, 428-485, 514-685).
ConfigIsTheUsers ==
    job = "run" => /\ cfg.registered = owned.registered /\ cfg.manual = owned.manual
                   /\ cfg.latency = owned.latency /\ cfg.tokens = owned.tokens

\* Once the program runs no token of the user is left in the clear on the card, except beside
\* one that was refused, and an expiry date never stands there without a token, wherever the
\* file was cut (config.c, 399-426, 575-635).
NoStaleTokens ==
    job # "off" =>
        /\ file.plain # {} => file.foreign \cup file.ours # {}
        /\ file.expiry => (file.ours \cup file.foreign \cup file.plain) \ {"npsso"} # {}
=============================================================================
