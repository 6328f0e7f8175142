-------------------------- MODULE ConnectArguments --------------------------
(***************************************************************************)
(* How one nebula_connect call finds its parameters: an instance profile   *)
(* addressed by alias or by the default, under the call's own arguments    *)
(* and over the plugin config, and the password behind the reference in    *)
(* force.  Profiles may be edited while the password is looked up.         *)
(*                                                                         *)
(* host stands for the parameters a call may override (port, user, ca and  *)
(* timeoutMs go the same way), cert for those it may not (cert, key and    *)
(* servername).  Blank is text of blanks only: the argument checks refuse  *)
(* such a host, as they do a port out of range; such a reference is in     *)
(* force but counts as none.                                               *)
(***************************************************************************)
EXTENDS CredentialStore

CONSTANTS Aliases, Hosts, Certs,
          Unset,       \* a field, an argument or a default left out
          Blank,       \* a host or reference of blanks
          Configs,     \* plugin configs to consider
          Sections,    \* instance settings to consider
          Asked,       \* tool arguments to consider
          MaxEdits     \* bound: edits of the settings

VARIABLES config,      \* the plugin config, for the life of the plugin
          settings,    \* the settings section as committed now
          edits,       \* edits of it so far
          connect      \* the nebula_connect call

connectVars == <<config, settings, edits, connect>>

-----------------------------------------------------------------------------
Modes == {"off", "on", "auto"}
Optional(S) == S \cup {Unset}

Profiles == [host : Hosts, tls : Optional(Modes), ref : Optional(Refs \cup {Blank}),
             cert : Optional(Certs)]
NoProfile == [host |-> Unset, tls |-> Unset, ref |-> Unset, cert |-> Unset]

ConfigType == [host : Hosts, tls : Modes, ref : Optional(Refs \cup {Blank}),
               cert : Optional(Certs), seam : BOOLEAN]      \* the host has a credentials service

SectionType == [profile : [Aliases -> Profiles \cup {NoProfile}],
                default : Optional(Aliases),
                refs    : SUBSET Refs]

ASSUME ConnectAssumption ==
         /\ Unset \notin Aliases \cup Hosts \cup Certs \cup Refs
         /\ Blank \notin Hosts \cup Refs \cup {Unset}
         /\ Configs \subseteq ConfigType /\ Sections \subseteq SectionType
         /\ MaxEdits \in Nat

Arguments == [instance : Optional(Aliases), host : Optional(Hosts \cup {Blank}),
              tls : Optional(Modes \cup {"other"}), ref : Optional(Refs \cup {Blank})]
NoArguments == [instance |-> Unset, host |-> Unset, tls |-> Unset, ref |-> Unset]

ASSUME AskedAssumption == Asked \subseteq Arguments

Exists(s, a) == a # Unset /\ s.profile[a] # NoProfile

(* x ?? y *)
Else(x, y) == IF x = Unset THEN y ELSE x

(* resolveInstanceSource: the profile's alias, or Unset for none.          *)
Source(s, args) ==
  IF args.instance # Unset THEN args.instance
  ELSE IF Exists(s, s.default) THEN s.default ELSE Unset

ProfileOf(s, a) == IF a = Unset THEN NoProfile ELSE s.profile[a]

(* A default that names no instance degrades to plugin config, with a      *)
(* warning in the tool's result.                                           *)
StaleDefault(s, args) ==
  IF args.instance = Unset /\ ~Exists(s, s.default) THEN s.default ELSE FALSE

Stale(s, args) == args.instance = Unset /\ s.default # Unset /\ ~Exists(s, s.default)

(* What resolveConnectArgs throws for. *)
UnenforcedArguments(s, args) ==
  \/ args.instance # Unset /\ ~Exists(s, args.instance)
  \/ args.host = Blank
  \/ args.tls = "other"

BadArguments(s, args) ==
  LET base == Else(ProfileOf(s, Source(s, args)).tls, config.tls) IN
  \/ args.instance # Unset /\ ~Exists(s, args.instance)
  \/ args.host = Blank
  \/ args.tls = "other"
  \/ args.tls # Unset /\ base # "auto" /\ args.tls # base

(* A password: where it is from, and for which reference. *)
Passwords ==
  {<<"store", r, v>> : r \in Refs, v \in Values}
  \cup {<<"environment", r>> : r \in Ambient}
  \cup {<<"config">>}
NoPassword == <<>>

ConnectStates ==
  [ pc       : {"idle", "lookup", "connecting", "threw", "missing"},
    args     : Arguments,
    seen     : SectionType,              \* history: the settings when called
    since    : 0 .. (MaxWrites + 1),    \* history: the document's version then
    instance : Optional(Aliases),       \* source.instance
    profile  : Profiles \cup {NoProfile},
    warning  : BOOLEAN,
    host     : Optional(Hosts),
    tls      : Optional(Modes),
    ref      : Optional(Refs \cup {Blank}),
    cert     : Optional(Certs),
    password : Passwords \cup {NoPassword} ]

ConnectTypeOK ==
  /\ config \in Configs
  /\ settings \in SectionType
  /\ edits \in 0 .. MaxEdits
  /\ connect \in ConnectStates

Idle(s) == [pc |-> "idle", args |-> NoArguments, seen |-> s, since |-> 0, instance |-> Unset,
            profile |-> NoProfile, warning |-> FALSE, host |-> Unset, tls |-> Unset,
            ref |-> Unset, cert |-> Unset, password |-> NoPassword]

ConnectInit ==
  /\ config \in Configs
  /\ settings \in Sections
  /\ edits = 0
  /\ connect = Idle(settings)

-----------------------------------------------------------------------------
(* nebula_connect up to its await: resolveConnectArgs reads the settings   *)
(* as they are now.                                                        *)
Resolve(args) ==
  /\ connect.pc = "idle"
  /\ ~BadArguments(settings, args)
  /\ LET a == Source(settings, args)
         p == ProfileOf(settings, a)
     IN connect' = [connect EXCEPT
          !.pc = "lookup", !.args = args, !.seen = settings, !.since = Version,
          !.instance = a, !.profile = p, !.warning = Stale(settings, args),
          !.host = Else(args.host, Else(p.host, config.host)),
          !.tls = Else(args.tls, Else(p.tls, config.tls)),
          !.ref = Else(args.ref, Else(p.ref, config.ref))]
  /\ UNCHANGED <<config, settings, edits>>

ResolveFails(args) ==
  /\ connect.pc = "idle"
  /\ BadArguments(settings, args)
  /\ connect' = [connect EXCEPT !.pc = "threw"]
  /\ UNCHANGED <<config, settings, edits>>

(* resolvePassword settles, with the document as it was at version n; then *)
(* resolveTlsOptions completes the parameters from the profile found then. *)
FoundOrConfig(n) ==
  IF connect.ref \notin {Unset, Blank} /\ config.seam /\ log[n][connect.ref] # NoValue
  THEN <<"store", connect.ref, log[n][connect.ref]>>
  ELSE IF connect.ref \in Ambient THEN <<"environment", connect.ref>>
  ELSE <<"config">>

Found(n) ==
  IF connect.ref \in {Unset, Blank} THEN <<"config">>
  ELSE IF config.seam /\ log[n][connect.ref] # NoValue
       THEN <<"store", connect.ref, log[n][connect.ref]>>
  ELSE IF connect.ref \in Ambient THEN <<"environment", connect.ref>>
  ELSE NoPassword

Complete(p, password) ==
  connect' = [connect EXCEPT !.pc = "connecting", !.password = password,
                             !.cert = Else(p.cert, config.cert)]

PasswordFoundReread(n) ==
  /\ connect.pc = "lookup" /\ connect.since <= n
  /\ Found(n) # NoPassword
  /\ Complete(ProfileOf(settings, connect.instance), Found(n))
  /\ UNCHANGED <<config, settings, edits>>

PasswordFound(n) ==
  /\ connect.pc = "lookup" /\ connect.since <= n
  /\ Found(n) # NoPassword
  /\ Complete(connect.profile, Found(n))
  /\ UNCHANGED <<config, settings, edits>>

(* No value: nebula_connect throws, and never tries another password. *)
PasswordMissing(n) ==
  /\ connect.pc = "lookup" /\ connect.since <= n
  /\ Found(n) = NoPassword
  /\ connect' = [connect EXCEPT !.pc = "missing"]
  /\ UNCHANGED <<config, settings, edits>>

(* The credentials service fails. *)
LookupFails ==
  /\ connect.pc = "lookup" /\ connect.ref \in Refs /\ config.seam
  /\ connect' = [connect EXCEPT !.pc = "threw"]
  /\ UNCHANGED <<config, settings, edits>>

ConnectNext ==
  \/ \E args \in Asked : Resolve(args) \/ ResolveFails(args)
  \/ \E n \in 1 .. Version : PasswordFound(n) \/ PasswordMissing(n)
  \/ LookupFails

(* A settings write is committed into the running config. *)
Commit(s) ==
  /\ edits < MaxEdits
  /\ edits' = edits + 1
  /\ settings' = s
  /\ UNCHANGED <<config, connect>>

-----------------------------------------------------------------------------
(* Whatever is edited while its password is looked up, a connection uses   *)
(* one configuration: every parameter is the call's argument, else that of *)
(* one profile as it was when the call came, else the plugin config's; the *)
(* profile is the one asked for, or the default, whose absence is told.    *)
OneConfiguration ==
  connect.pc = "connecting" =>
    LET a == connect.instance
        p == ProfileOf(connect.seen, a)
        Chosen(used, levels) ==
          \E i \in DOMAIN levels : used = levels[i] /\ \A j \in 1 .. (i - 1) : levels[j] = Unset
    IN /\ Chosen(connect.host, <<connect.args.host, p.host, config.host>>)
       /\ Chosen(connect.ref, <<connect.args.ref, p.ref, config.ref>>)
       /\ Chosen(connect.cert, <<p.cert, config.cert>>)
       /\ connect.args.instance # Unset => a = connect.args.instance
       /\ a = Unset => /\ ~Exists(connect.seen, connect.seen.default)
                       /\ connect.warning = (connect.seen.default # Unset)

(* Tool arguments never change a transport policy: when the profile, or    *)
(* the plugin config for a profile that leaves it open, says on or off,    *)
(* that is how the call connects (resolveConnectArgs).                     *)
PolicyEnforced ==
  connect.pc = "connecting" =>
    LET policy == Else(ProfileOf(connect.seen, connect.instance).tls, config.tls)
    IN policy # "auto" => connect.tls = policy

(* A reference in force decides the password: the call connects with a     *)
(* value this very reference had while it was looked up, or the            *)
(* environment's, never with the plaintext default or another's value; and *)
(* it reports a missing password only if there was none at some moment.    *)
PasswordOfReference ==
  LET during == connect.since .. Version
      r == connect.ref
  IN /\ connect.pc = "connecting" =>
          \/ r \notin Refs /\ connect.password = <<"config">>
          \/ r \in Ambient /\ connect.password = <<"environment", r>>
          \/ r \in Refs /\ \E n \in during : connect.password = <<"store", r, log[n][r]>>
     /\ connect.pc = "missing" =>
          /\ r \in Refs \ Ambient
          /\ ~config.seam \/ \E n \in during : log[n][r] = NoValue
=============================================================================
