---------------------------- MODULE MCCredentials ----------------------------
(* Credentials over two plugin configs and two settings sections, and the  *)
(* form over ten texts.                                                    *)
EXTENDS Credentials, TLC

CONSTANTS staging, prod, host1, host2, host3, cert1, cert2, ref1, ref2,
          blanks, name, padded, words, plain9669, hex9669, plain65536, half, zero,
          auto, local, lan, far, Half

(* TLS left open and a shared reference, or enforced and no reference.     *)
MCConfigs ==
  { [host |-> host1, tls |-> "auto", ref |-> ref2, cert |-> cert1, seam |-> TRUE],
    [host |-> host1, tls |-> "on", ref |-> Unset, cert |-> Unset, seam |-> FALSE] }

(* A complete profile as default beside a sparse one; a default that is    *)
(* gone beside a profile that leaves its TLS mode to the plugin config.    *)
MCSections ==
  LET none == [alias \in Aliases |-> NoProfile]
      full == [host |-> host2, tls |-> "on", ref |-> ref1, cert |-> cert2]
      sparse == [host |-> host3, tls |-> "auto", ref |-> Unset, cert |-> Unset]
      loose == [sparse EXCEPT !.tls = Unset]
  IN { [profile |-> [none EXCEPT ![staging] = sparse, ![prod] = full],
        default |-> prod, refs |-> {ref1}],
       [profile |-> [none EXCEPT ![prod] = loose], default |-> staging, refs |-> {}] }

(* Nothing; an instance with a mode of the call's own, over every policy,  *)
(* and with or without what replaces its host and reference; and what is   *)
(* refused.                                                                *)
MCAsked ==
  { NoArguments,
    [NoArguments EXCEPT !.instance = prod, !.ref = Blank, !.tls = "off"],
    [NoArguments EXCEPT !.instance = staging, !.host = host3, !.ref = ref1, !.tls = "on"],
    [NoArguments EXCEPT !.tls = "other"],
    [NoArguments EXCEPT !.host = Blank] }

(* Everything may be written, or not the value of one reference, or not    *)
(* the settings.                                                           *)
MCPermits ==
  { [settings |-> TRUE, refs |-> Refs],
    [settings |-> TRUE, refs |-> {ref2}],
    [settings |-> FALSE, refs |-> {ref1}] }

-----------------------------------------------------------------------------
(* A name between blanks, and one number written in two ways.              *)
MCTrim == [t \in Texts |-> CASE t = blanks -> Empty [] t = padded -> name [] OTHER -> t]

MCNumber ==
  [t \in Texts |-> CASE t \in {plain9669, hex9669} -> 9669
                     [] t = plain65536 -> 65536
                     [] t = zero -> 0
                     [] t = half -> Half
                     [] OTHER -> NaN]

MCNumbers == {0, 9669, 65536, Half}

MCPrinted == [n \in MCNumbers |-> CHOOSE t \in Texts \ {hex9669} : MCNumber[t] = n]

(* Nothing but what is required; everything; and what only a settings file *)
(* says: texts with blanks around or of blanks, and a port that no call    *)
(* can use.                                                                *)
Sparse == [NoInstance EXCEPT !["alias"] = name, !["host"] = name]

EveryField == [Sparse EXCEPT !["user"] = words, !["passwordRef"] = words, !["cert"] = padded,
                             !["tls"] = auto, !["port"] = 9669, !["timeoutMs"] = 65536]

ByHand == [Sparse EXCEPT !["host"] = padded, !["user"] = blanks, !["port"] = Half]

MCFirstStored == {NoInstance, Sparse, EveryField, ByHand}

(* A write by curl, and what may be wrong with one. *)
Curl == [to |-> [name |-> local, port |-> 1], origin |-> Nothing, crossSite |-> FALSE,
         post |-> TRUE, method |-> "instances.update", fault |-> "none",
         instance |-> EveryField, stale |-> FALSE]

MCOtherRequests ==
  { Curl,
    [Curl EXCEPT !.instance = NoInstance],
    [Curl EXCEPT !.instance = [Sparse EXCEPT !["port"] = 65536]],
    [Curl EXCEPT !.instance = [Sparse EXCEPT !["host"] = blanks]],
    [Curl EXCEPT !.stale = TRUE],
    [Curl EXCEPT !.fault = "noJSON"],
    [Curl EXCEPT !.fault = "noSection"],
    [Curl EXCEPT !.method = "other"],
    [Curl EXCEPT !.method = Nothing],
    [Curl EXCEPT !.post = FALSE],
    [Curl EXCEPT !.crossSite = TRUE],
    [Curl EXCEPT !.to = Nothing] }

MCTrustedHosts == {{[name |-> lan, port |-> AnyPort]}}

MCTyped ==
  [f \in Fields |-> CASE f = "alias" -> {name, words, padded}
                      [] f = "host" -> {padded, blanks}
                      [] f = "tls" -> TlsModes
                      [] f = "port" -> {hex9669, plain65536, half, zero}
                      [] f = "timeoutMs" -> {plain65536, zero, words}
                      [] OTHER -> {Empty, padded}]

ValueSymmetry == Permutations(Values)
=============================================================================
