------------------------------- MODULE Config -------------------------------
(***************************************************************************)
(* What a starter reads before it serves: three settings, each from the    *)
(* environment or, failing that, from .env in the working directory, and   *)
(* the first fault it finds with them, which it reports and exits on.  The *)
(* endpoint is left out: it has a default and is taken as it stands.       *)
(***************************************************************************)
EXTENDS Naturals, Sequences

Settings == {"PROVIDER_PRIVATE_KEY", "NETWORK_PUBLIC_KEY", "PORT"}

\* What a place may say of a setting: nothing, or a text.  "blank" is the
\* empty text and one of white space; a key is well formed or it is not.
KeyTexts == {"unset", "blank", "malformed", "key"}

\* How Number() would read a port's text.
NumberOf ==
    [text \in {"0x50", "0", "65535", "65536"} |->
       IF text = "0x50" THEN 80 ELSE IF text = "0" THEN 0
       ELSE IF text = "65535" THEN 65535 ELSE 65536]

DigitsOnly == {"0", "65535", "65536"}

PortTexts == {"unset", "blank"} \cup DOMAIN NumberOf

Texts == [Settings -> KeyTexts \cup PortTexts]

\* A setting in the environment wins, though it be blank there.
Effective(environment, file) ==
    [s \in Settings |-> IF environment[s] = "unset" THEN file[s] ELSE environment[s]]

\* Mutant: the highest port refused.
parsePortShort(text) ==
    IF text \in {"unset", "blank"} THEN 8080
    ELSE IF text \in DigitsOnly /\ NumberOf[text] \in 1..65534 THEN NumberOf[text]
    ELSE 0

\* 0 stands for a refusal.
parsePort(text) ==
    IF text \in {"unset", "blank"} THEN 8080
    ELSE IF text \in DigitsOnly /\ NumberOf[text] \in 1..65535 THEN NumberOf[text]
    ELSE 0

-----------------------------------------------------------------------------
(* The checks, in the order each starter makes them; the network key is    *)
(* parsed last, when the server is set up.                                 *)

PrivateKeySet == [setting |-> "PROVIDER_PRIVATE_KEY", refuses |-> {"unset", "blank"}]
PrivateKeyUsable == [setting |-> "PROVIDER_PRIVATE_KEY", refuses |-> {"malformed"}]
NetworkKeySet == [setting |-> "NETWORK_PUBLIC_KEY", refuses |-> {"unset", "blank"}]
PortValid == [setting |-> "PORT", refuses |-> {text \in PortTexts : parsePort(text) = 0}]
NetworkKeyUsable == [setting |-> "NETWORK_PUBLIC_KEY", refuses |-> {"malformed"}]

loadConfig(starter) ==
    IF starter \in {"node", "python"}
      THEN <<PrivateKeySet, NetworkKeySet, PortValid, PrivateKeyUsable>>
      ELSE <<PrivateKeySet, PrivateKeyUsable, NetworkKeySet, PortValid>>

\* The setting the starter complains of, if any: that of the first check to
\* fail.
Complaint(starter, settings) ==
    LET checks == Append(loadConfig(starter), NetworkKeyUsable)
        failing == {n \in 1..5 : settings[checks[n].setting] \in checks[n].refuses}
    IN  IF failing = {} THEN "none"
        ELSE checks[CHOOSE n \in failing : \A m \in failing : n <= m].setting
=============================================================================
