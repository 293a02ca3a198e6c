------------------------------ MODULE MCStartup ------------------------------
(***************************************************************************)
(* Instances of Startup.                                                   *)
(***************************************************************************)
EXTENDS Startup

AllServers == {"prom", "loki", "tempo", "am", "pbs", "wp", "ha", "pg"}

(* Everything a variable may hold.                                         *)
AnySettings == [v \in Variables |->
  IF v \in {"TIMEOUT_SECS", "CONNECT_TIMEOUT_SECS", "LIMIT"}
  THEN {"unset", "blank", "zero", "junk", "good"}
  ELSE {"unset", "blank", "junk", "good"}]

Spelled(form, schemes, ports) ==
  [scheme : schemes, form : {form}, port : ports]

(* A scheme or none, a port or none; an unbracketed IPv6 literal can have  *)
(* neither.                                                                *)
AllSpellings == Spelled("name", {"none", "http", "https"}, {0, 1234})
                  \cup Spelled("bracketed", {"none", "http", "https"}, {0, 1234})
                  \cup Spelled("literal", {"none"}, {0})

(* Unset, and every list of up to two entries, blanks included.            *)
AllLists == {{}} \cup
  UNION {{{entries} : entries \in [1..n -> {"blank", "named", "other"}]} : n \in 1..2}

AllBuilt == {{}} \cup {{names} : names \in SUBSET {"named", "other"}}

(* A check looks at the settings and at nothing else, an address at what   *)
(* is no setting: one of the two varies, the other is plain.               *)
SettingsVary == host = [scheme |-> "none", form |-> "name", port |-> 0]
                  /\ raw = {}

AddressesVary ==
  /\ server \in Servers /\ host \in Spellings /\ raw \in HostLists
  /\ env = [v \in Variables |-> IF v \in Reads(server) THEN "good" ELSE "unset"]

MCInit == (SettingsVary \/ AddressesVary) /\ StartupInit

MCSpec == MCInit /\ [][StartupNext]_startupVars /\ WF_startupVars(Start) /\ WF_startupVars(Correct)
=============================================================================
