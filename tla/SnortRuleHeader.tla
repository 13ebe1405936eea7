--------------------------- MODULE SnortRuleHeader ---------------------------
(***************************************************************************)
(* The header parser: SnortRuleHeader.__init__ over the header tokens      *)
(* (the header text split on single spaces) and is_http_header.  Every     *)
(* failure is a SnortHookException, so it is a rule error.                 *)
(***************************************************************************)
EXTENDS Integers, Sequences

\* validate_and_parse_action: 'drop' is recorded, these are accepted silently.
SilentActions == {"alert", "log", "pass", "reject", "sdrop"}
Protocols == {"http", "tcp", "udp", "icmp", "ip", "file"}
Directions == {"->", "<>"}
HttpPorts == "$HTTP_PORTS"

HeaderErr(cause) == [ok |-> FALSE, cause |-> cause]

\* validate_and_parse_source_ports / _destination_ports
Ports(p) == IF p = HttpPorts THEN HttpPorts ELSE ""

(***************************************************************************)
(* The 2-token form 'action protocol' or the 7-token form 'action protocol *)
(* src_net src_port direction dst_net dst_port', validated in the code's   *)
(* order: action, protocol, then the direction (7-token form only).        *)
(***************************************************************************)
ParseHeader(tokens) ==
  CASE Len(tokens) \notin {2, 7} -> HeaderErr("InvalidHeader")
    [] tokens[1] \notin {"drop"} \cup SilentActions -> HeaderErr("UnknownAction")
    [] tokens[2] \notin Protocols -> HeaderErr("UnknownProtocol")
    [] Len(tokens) = 7 /\ tokens[5] \notin Directions -> HeaderErr("UnknownDirection")
    [] OTHER ->
         [ok |-> TRUE,
          rules |-> [action |-> IF tokens[1] = "drop" THEN "drop" ELSE "",
                     protocol |-> tokens[2],
                     directional_op |-> IF Len(tokens) = 7 THEN tokens[5] ELSE "",
                     source_ports |-> IF Len(tokens) = 7 THEN Ports(tokens[4]) ELSE "",
                     destination_ports |-> IF Len(tokens) = 7 THEN Ports(tokens[7]) ELSE ""]]

IsHttpHeader(rules) == rules.protocol = "http" \/ rules.destination_ports = HttpPorts
=============================================================================
