---------------------------- MODULE SecurityGates ----------------------------
(***************************************************************************)
(* The gates of crates/security a tool call may be put through: the tool   *)
(* allowlist, the SSRF guard and the injection scanner.  A text is the set *)
(* of the patterns it matches; an address is the numbers the guard looks   *)
(* at; parsing a host name into one is the library's.                      *)
(***************************************************************************)
EXTENDS Integers, Sequences, FiniteSets, SequencesExt, Filtering

CONSTANTS Tools,           (* tool names, "file_read" among them           *)
          Addresses,       (* [family, parts]: octets or segments          *)
          Texts            (* subsets of the scanner's patterns            *)

VARIABLES allowed,         (* ToolAllowlist.allowed                        *)
          guarding,        (* SsrfGuard.enabled                            *)
          scanning,        (* InjectionScanner.enabled                     *)
          told             (* history: what was last said of each tool     *)

gateVars == << allowed, guarding, scanning, told >>

(* ToolAllowlist::new and default_safe, SsrfGuard::new and disabled, and   *)
(* the same of the scanner.                                                *)
GatesInit ==
    /\ allowed \in {{}, {"file_read"}}
    /\ guarding \in BOOLEAN /\ scanning \in BOOLEAN
    /\ told = [t \in Tools |-> IF t \in allowed THEN "allow" ELSE "deny"]

Tell(tool, what) ==
    /\ told' = [told EXCEPT ![tool] = what]
    /\ UNCHANGED << guarding, scanning >>

AllowTool(tool) == Tell(tool, "allow") /\ allowed' = allowed \cup {tool}

DenyTool(tool) == Tell(tool, "deny") /\ allowed' = allowed \ {tool}

CheckTool(tool) == IF tool \in allowed THEN "Allowed" ELSE "Denied"

SetGuard(on) == guarding' = on /\ UNCHANGED << allowed, scanning, told >>

SetScanner(on) == scanning' = on /\ UNCHANGED << allowed, guarding, told >>

-----------------------------------------------------------------------------

(* Mutant: the end of the range is taken for its length. *)
BlocksIpv4Short(octets) ==
    \/ octets[1] \in {127, 10}
    \/ octets[1] = 172 /\ octets[2] \in 16 .. 30
    \/ octets[1] = 192 /\ octets[2] = 168
    \/ octets[1] = 169 /\ octets[2] = 254
    \/ \A i \in 1 .. 4 : octets[i] = 255

BlocksIpv4(octets) ==
    \/ octets[1] \in {127, 10}
    \/ octets[1] = 172 /\ octets[2] \in 16 .. 31
    \/ octets[1] = 192 /\ octets[2] = 168
    \/ octets[1] = 169 /\ octets[2] = 254
    \/ \A i \in 1 .. 4 : octets[i] = 255

(* n & mask, for the mask that clears what is below span. *)
Masked(n, span) == n - (n % span)

BlocksIpv6(segments) ==
    \/ segments = << 0, 0, 0, 0, 0, 0, 0, 1 >>
    \/ Masked(segments[1], 512) = 64512     (* & 0xfe00 == 0xfc00 *)
    \/ Masked(segments[1], 64) = 65152      (* & 0xffc0 == 0xfe80 *)

CheckIp(address) ==
    IF guarding /\ (IF address.family = 4 THEN BlocksIpv4(address.parts)
                                          ELSE BlocksIpv6(address.parts))
    THEN "Blocked" ELSE "Safe"

(* A host name is "localhost", the text of an address, or another name.    *)
CheckHostname(kind, address) ==
    CASE ~ guarding \/ kind = "name" -> "Safe"
      [] guarding /\ kind = "localhost" -> "Blocked"
      [] guarding /\ kind = "literal" -> CheckIp(address)

(* extract_host looks for the last colon of scheme://host[:port]/path.  An *)
(* IPv6 literal without a port loses its last part there, and leaves a name*)
(* or another literal.  "none": no host.                                   *)
ExtractHost(kind, address, port) ==
    IF kind = "literal" /\ address.family = 6 /\ ~ port
    THEN {<< "name", address >>}
            \cup { << "literal", other >> : other \in { a \in Addresses : a.family = 6 } }
    ELSE {<< kind, address >>}

(* The answers there may be. *)
CheckUrl(kind, address, port) ==
    { IF guarding /\ host[1] = "none" THEN "Blocked"
      ELSE CheckHostname(host[1], host[2]) : host \in ExtractHost(kind, address, port) }

-----------------------------------------------------------------------------

(* INJECTION_PATTERNS, in the order they are tried. *)
InjectionPatterns ==
    << "ignore-previous", "disregard-previous", "forget-previous",
       "role-manipulation", "pretend-malicious", "output-secret",
       "reveal-secret", "delimiter-injection", "delimiter-header",
       "command-injection", "shell-injection", "data-exfiltration" >>

Octet == 0 .. 255
Segment == 0 .. 65535

Ipv4Addresses == [family : {4}, parts : [1 .. 4 -> Octet]]
Ipv6Addresses == [family : {6}, parts : [1 .. 8 -> Segment]]

ASSUME GatesAssumption ==
    /\ Addresses \subseteq Ipv4Addresses \cup Ipv6Addresses
    /\ Texts \subseteq SUBSET ToSet(InjectionPatterns)

Scan(text) ==
    LET matching == Filter(InjectionPatterns, text)
    IN  IF scanning /\ matching # << >> THEN Head(matching) ELSE "Clean"

GatesNext ==
    \/ \E tool \in Tools : AllowTool(tool) \/ DenyTool(tool)
    \/ \E on \in BOOLEAN : SetGuard(on) \/ SetScanner(on)

-----------------------------------------------------------------------------

(* The address blocks of the guard's documentation (ssrf.rs:33-39), by the *)
(* sixteen bits an address begins with: the first value and how many there *)
(* are, of the 65536 that the prefix leaves.                               *)
Blocks(family) ==
    IF family = 4
    THEN {<< 127 * 256, 256 >>, << 10 * 256, 256 >>, << 172 * 256 + 16, 16 >>,
          << 192 * 256 + 168, 1 >>, << 169 * 256 + 254, 1 >>}
    ELSE {<< 64512, 512 >>, << 65152, 64 >>}

Leading(address) ==
    IF address.family = 4 THEN address.parts[1] * 256 + address.parts[2]
                          ELSE address.parts[1]

SpecialAddresses ==
    {[family |-> 6, parts |-> << 0, 0, 0, 0, 0, 0, 0, 1 >>],
     [family |-> 4, parts |-> << 255, 255, 255, 255 >>]}

RulesAreFollowed ==
    /\ \A address \in Addresses :
          LET inBlock == \E block \in Blocks(address.family) :
                  Leading(address) \in block[1] .. block[1] + block[2] - 1
          IN  /\ CheckIp(address) = "Blocked"
                    <=> guarding /\ (inBlock \/ address \in SpecialAddresses)
              /\ CheckHostname("literal", address) = CheckIp(address)
              /\ \A port \in BOOLEAN :
                    /\ address.family = 4 \/ port =>
                          CheckUrl("literal", address, port) = {CheckIp(address)}
                    /\ guarding => \A kind \in {"none", "localhost"} :
                          CheckUrl(kind, address, port) = {"Blocked"}
    /\ \A tool \in Tools : CheckTool(tool) = "Allowed" <=> told[tool] = "allow"
    /\ \A text \in Texts :
          /\ Scan(text) # "Clean" <=> scanning /\ text # {}
          /\ Scan(text) \in text \cup {"Clean"}

(***************************************************************************)
(* However the gates were switched and tools told before: the guard, while *)
(* enabled, blocks exactly the documented address blocks (and the broadcast*)
(* address), written as an address, as a host, or in a URL (an IPv6 address*)
(* only with a port), and a URL without a host; the allowlist answers with *)
(* what it was last told of a tool; and the scanner, while enabled, finds  *)
(* every text that matches any pattern.  (Asked after every change of the  *)
(* gates.)                                                                 *)
(***************************************************************************)
GatesFollowTheirRules == [][gateVars' # gateVars => RulesAreFollowed']_gateVars
=============================================================================
