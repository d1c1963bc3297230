------------------------------ MODULE Settings ------------------------------
(***************************************************************************)
(* The settings every process shares (signal_engine/config.py): the rows   *)
(* of app_settings that steer the daemons, and the secrets file with the   *)
(* API key.  An operator below is one statement of ConfigRepository on the *)
(* table, or one step on the file; who calls it, and after which reads, is *)
(* the business of ControlPlane.                                           *)
(*                                                                         *)
(* A saved AI provider record is the number of the save that staged it, an *)
(* API key the number of the save that set it, 0 stands for none.          *)
(***************************************************************************)
EXTENDS Integers, FiniteSets

CONSTANTS
    Symbols,      \* SUPPORTED_SYMBOLS
    Unset,        \* no stored symbol
    Daemons,      \* the engine processes
    EnvSymbol,    \* EnvSymbol[d]: BTCUSDT_SYMBOL in the environment of daemon d
    StoredFirst,  \* what an earlier version may have stored as the single symbol
    MaxSaves      \* bound: saves of the AI provider settings

ASSUME EnvAssumption == EnvSymbol \in [Daemons -> Symbols] /\ Unset \notin Symbols
ASSUME StoredAssumption == StoredFirst \subseteq Symbols \cup {Unset}
ASSUME SaveAssumption == MaxSaves \in Nat

VARIABLES
    live,      \* ai_provider: the record the next analysis uses
    staged,    \* ai_provider_pending
    single,    \* symbol: the legacy single symbol
    combo,     \* symbols: the enabled symbols, {} when never saved
    saves,     \* AI provider records staged so far
    secret,    \* the API key in the secrets file, 0 while it is truncated
    cached,    \* cached[d]: the API key in the cache of daemon d's SecretStore
    current,   \* the daemons whose cached mtime is that of the file
    fooled     \* history: daemons whose content a rewrite replaced, mtime unchanged

records == <<live, staged, saves>>
routes == <<single, combo>>
secrets == <<secret, cached, current, fooled>>
settings == <<records, routes, secrets>>

SettingsInit ==
    /\ live = 0
    /\ staged = 0
    /\ single \in StoredFirst
    /\ combo = {}
    /\ saves = 0
    /\ secret = 0
    /\ cached = [d \in Daemons |-> 0]
    /\ current = {}
    /\ fooled = {}

-----------------------------------------------------------------------------
(* AI provider records *)

(* ConfigRepository.set of the validated record. *)
Stage ==
    /\ saves < MaxSaves
    /\ saves' = saves + 1
    /\ staged' = saves + 1
    /\ UNCHANGED live

(* Mutant of Promote: a missing row is copied as well. *)
PromoteBlank ==
    /\ live' = staged
    /\ UNCHANGED <<staged, saves>>

(* ConfigRepository.promote: one transaction copies the staged row, or     *)
(* does nothing without one.                                               *)
Promote ==
    /\ live' = IF staged = 0 THEN live ELSE staged
    /\ UNCHANGED <<staged, saves>>

(* ConfigRepository.delete of the staged row, whatever it holds by now. *)
Unstage ==
    /\ staged' = 0
    /\ UNCHANGED <<live, saves>>

-----------------------------------------------------------------------------
(* Symbols *)

(* update_symbol: never locked. *)
StoreSymbol(s) ==
    /\ single' = s
    /\ UNCHANGED combo

(* update_symbols: never locked, a non-empty list. *)
StoreSymbols(S) ==
    /\ S # {}
    /\ combo' = S
    /\ UNCHANGED single

(* Mutant of ResolveSymbol: no fallback to the environment. *)
ResolveStored(d) == single

(* resolve_symbol: the stored symbol, else the environment's. *)
ResolveSymbol(d) == IF single # Unset THEN single ELSE EnvSymbol[d]

(* resolve_daemon_symbol: several enabled symbols hand the choice to the   *)
(* environment of each daemon.                                             *)
ResolveDaemonSymbol(d) ==
    IF Cardinality(combo) > 1 THEN EnvSymbol[d] ELSE ResolveSymbol(d)

(* get_symbols_public: what is enabled, the single symbol without a combo. *)
EnabledSymbols(d) == IF combo = {} THEN {ResolveSymbol(d)} ELSE combo

-----------------------------------------------------------------------------
(* The secrets file.  Its mtime is the tick of the clock in which it was   *)
(* last truncated or written: a second time in the same tick leaves it as  *)
(* it is.  The file is there from the start, with other secrets (the       *)
(* creation of a missing one always shows).  The store of the web server   *)
(* is left out: it matters only for those secrets, which a set copies.     *)

(* _refresh_if_changed, first half: a store whose cached mtime is the      *)
(* file's keeps its cache; another one takes the new mtime ...             *)
StatSecret(d) ==
    /\ current' = current \cup {d}
    /\ UNCHANGED <<secret, cached, fooled>>

(* ... and then reads the file; a truncated file is read as no secrets. *)
LoadSecret(d) ==
    /\ cached' = [cached EXCEPT ![d] = secret]
    /\ fooled' = fooled \ {d}
    /\ UNCHANGED <<secret, current>>

(* The file is rewritten.  In a new tick no cached mtime is the file's any *)
(* more; in the tick of the last rewrite the stores that have seen that    *)
(* one see no difference.                                                  *)
Rewrite(k) ==
    \E sameTick \in BOOLEAN :
        /\ secret' = k
        /\ current' = IF sameTick THEN current ELSE {}
        /\ fooled' = IF sameTick THEN current ELSE {}
        /\ UNCHANGED cached

(* SecretStore.set: O_TRUNC on opening, ... *)
TruncateSecret == Rewrite(0)

(* ... then the write of the whole document. *)
WriteSecret(k) == Rewrite(k)

(* A process that ends takes its cache with it. *)
ForgetSecret(d) ==
    /\ cached' = [cached EXCEPT ![d] = 0]
    /\ current' = current \ {d}
    /\ fooled' = fooled \ {d}
    /\ UNCHANGED secret
=============================================================================
