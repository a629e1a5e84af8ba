------------------------------ MODULE Framing ------------------------------
(***************************************************************************)
(* From what a user types to what the server takes it for, and back: the   *)
(* input fields of client_ui.c, the messages of protocol.c, their way over *)
(* a TCP connection that delivers bytes in pieces of any size (client_net.c*)
(* and server_net.c), and the parsers of server_mng.c.                     *)
(*                                                                         *)
(* A string is the sequence of its characters and a character a byte, so   *)
(* that one can be taken for a length.  Only the length limits are scaled  *)
(* down; bytes have their width.  Besides the shipped client the server    *)
(* hears one that sends any bytes as the value of a request.               *)
(***************************************************************************)
EXTENDS Naturals, Sequences, FiniteSetsExt, SequencesExt

CONSTANTS
  Chars,     \* the characters that are typed
  RawBytes,  \* the bytes in the values of the other client
  Ports,     \* MULTICAST_BASE_PORT
  MaxUser, MaxPass, MaxGroup, MaxIp,  \* MAX_USERNAME_LEN, ...: with the final NUL
  MaxLine,   \* bound: the length of a typed line
  MaxRaw     \* bound: the length of such a value

NUL == 0
Newline == 10
Bytes == 0 .. 255
Words == 0 .. 65535
uint8(n) == n % 256

ASSUME CharsAssumption ==
  Chars \subseteq Bytes \ {NUL, Newline} /\ RawBytes \subseteq Bytes
ASSUME PortsAssumption == Ports \subseteq Words
\* limits.h: 2 + 1 + 31 + 1 + 63 < 256, the largest message the builders make.
ASSUME FitsAssumption ==
  {MaxUser, MaxPass, MaxGroup, MaxIp} \subseteq Nat \ {0}
    /\ \A n \in {MaxUser + MaxPass, MaxGroup + 1, MaxIp + 3} : 2 + n < 256
\* A value has a length that is one byte.
ASSUME BoundsAssumption == MaxLine \in Nat /\ MaxRaw \in Bytes

VARIABLES
  pc,      \* who is at work: "menu", "server" (net_read_msg), "client" (recv), "told" (printing)
  asked,   \* the tag and the value of the request
  typed,   \* the lines the user has typed for it
  fields,  \* what read_input has made of them; <<"raw">> for the other client
  value,   \* the value of the message under way
  out,     \* the bytes its writer has still to write
  wire,    \* those on their way
  got,     \* those its reader has
  parsed,  \* what the server took the request for
  told     \* the reply as the client understood it

wirevars == <<pc, asked, typed, fields, value, out, wire, got, parsed, told>>

MSG_REGISTER == 1
MSG_LOGOUT == 3
MSG_JOIN_GROUP == 5
MSG_SUCCESS == 100
MSG_ERROR == 101
MSG_GROUP_INFO == 102

Malformed == << >>

-----------------------------------------------------------------------------
(***************************************************************************)
(* client_ui.c and the builders of protocol.c.                             *)
(***************************************************************************)
Strings(alphabet, n) == UNION {[1 .. k -> alphabet] : k \in 0 .. n}

\* fgets: at most max - 1 characters, up to a newline, which is cut off; the rest of
\* the line stays for the next prompt.
read_input(stream, max) ==
  LET newlines == {k \in DOMAIN stream : stream[k] = Newline}
      taken == Min({max - 1} \cup newlines)
  IN  [field |-> SubSeq(stream, 1, IF taken \in newlines THEN taken - 1 ELSE taken),
       rest |-> SubSeq(stream, taken + 1, Len(stream))]

Line(s) == Append(s, Newline)

\* Seeded fault: any length will do.
is_valid_str_Any(s, max) == Len(s) < max

is_valid_str(s, max) == Len(s) \in 1 .. max - 1

Sized(s) == <<uint8(Len(s))>> \o s

AuthValue(user, pass) == Sized(user) \o Sized(pass)
GroupValue(name) == Sized(name)
InfoValue(ip, port) == Sized(ip) \o <<port \div 256, port % 256>>

\* Seeded fault: fewer bits than the messages need.
out_len_Narrow(length) == (2 + length) % 4

\* serialize_msg: the length of the whole is a uint8_t as well.
out_len(length) == uint8(2 + length)
serialize_msg(t, v) == SubSeq(<<t, uint8(Len(v))>> \o v, 1, out_len(Len(v)))

Carry(v, message) == value' = v /\ out' = message /\ wire' = << >> /\ got' = << >>
Send(t, v) == Carry(v, serialize_msg(t, v))

Ask(t, lines, read, v) ==
  /\ pc = "menu"
  /\ asked' = <<t, v>>
  /\ typed' = lines
  /\ fields' = read
  /\ parsed' = Malformed
  /\ told' = << >>
  /\ pc' = "server"

\* The client asks for the fields and sends the message, if they are valid; otherwise
\* it is back at the menu.

build_auth_msg(line1, line2) ==
  LET first == read_input(Line(line1) \o Line(line2), MaxUser)
      user == first.field
      pass == read_input(first.rest, MaxPass).field
  IN  /\ is_valid_str(user, MaxUser) /\ is_valid_str(pass, MaxPass)
      /\ Ask(MSG_REGISTER, <<line1, line2>>, <<user, pass>>, AuthValue(user, pass))
      /\ Send(MSG_REGISTER, AuthValue(user, pass))

build_group_msg(line) ==
  LET name == read_input(Line(line), MaxGroup).field
  IN  /\ is_valid_str(name, MaxGroup)
      /\ Ask(MSG_JOIN_GROUP, <<line>>, <<name>>, GroupValue(name))
      /\ Send(MSG_JOIN_GROUP, GroupValue(name))

build_simple_msg == Ask(MSG_LOGOUT, << >>, << >>, << >>) /\ Send(MSG_LOGOUT, << >>)

\* A client of another make, with a way of its own to write a message.
Raw == \E t \in {MSG_REGISTER, MSG_JOIN_GROUP}, v \in Strings(RawBytes, MaxRaw) :
         Ask(t, << >>, <<"raw">>, v) /\ Carry(v, <<t, Len(v)>> \o v)

-----------------------------------------------------------------------------
(***************************************************************************)
(* The connection: send_all and net_send_msg write on until all is         *)
(* written; recv_all and net_read_msg read two bytes, then as many as the  *)
(* second of them says.                                                    *)
(***************************************************************************)
Prefix(s, n) == SubSeq(s, 1, n)
Suffix(s, n) == SubSeq(s, n + 1, Len(s))

write_some ==
  /\ \E n \in DOMAIN out : wire' = wire \o Prefix(out, n) /\ out' = Suffix(out, n)
  /\ UNCHANGED <<pc, asked, typed, fields, value, got, parsed, told>>

Wanted == IF Len(got) < 2 THEN 2 ELSE 2 + got[2]

read_some ==
  /\ \E n \in DOMAIN wire : /\ Len(got) + n <= Wanted
                            /\ got' = got \o Prefix(wire, n)
                            /\ wire' = Suffix(wire, n)
  /\ UNCHANGED <<pc, asked, typed, fields, value, out, parsed, told>>

Whole == Len(got) >= 2 /\ Len(got) = Wanted

-----------------------------------------------------------------------------
(***************************************************************************)
(* The server: parse_auth_value and parse_group_value, and a reply.        *)
(***************************************************************************)
\* What was copied is used as a C string.
CString(s) == LET nuls == {k \in DOMAIN s : s[k] = NUL}
              IN  IF nuls = {} THEN s ELSE Prefix(s, Min(nuls) - 1)

\* Seeded fault: bytes after the password do no harm.
Ends_Loose(n, length) == n <= length

\* The password ends where the value does.
Ends(n, length) == n = length

parse_auth_value(v) ==
  IF /\ Len(v) >= 2
     /\ v[1] + 2 <= Len(v)
     /\ Ends(v[1] + 2 + v[v[1] + 2], Len(v))
     /\ v[1] \in 1 .. MaxUser - 1
     /\ v[v[1] + 2] \in 1 .. MaxPass - 1
  THEN <<CString(SubSeq(v, 2, 1 + v[1])), CString(SubSeq(v, v[1] + 3, v[1] + 2 + v[v[1] + 2]))>>
  ELSE Malformed

parse_group_value(v) ==
  IF Len(v) >= 1 /\ 1 + v[1] = Len(v) /\ v[1] \in 1 .. MaxGroup - 1
  THEN <<CString(Suffix(v, 1))>> ELSE Malformed

Understood(t, v) == CASE t = MSG_REGISTER -> parse_auth_value(v)
                      [] t = MSG_JOIN_GROUP -> parse_group_value(v)
                      [] OTHER -> Malformed

Ips == Strings(Chars, MaxIp - 1) \ {<< >>}

Codes == {2, 8}

\* The request is whole: it is parsed, and refused or accepted.
dispatch_message ==
  /\ pc = "server"
  /\ Whole
  /\ LET request == Understood(got[1], Suffix(got, 2))
     IN  /\ parsed' = request
         /\ \/ got[1] # MSG_LOGOUT /\ \E code \in Codes : Send(MSG_ERROR, <<code>>)
            \/ /\ request # Malformed \/ got[1] = MSG_LOGOUT
               /\ Send(MSG_SUCCESS, <<0>>)
            \/ /\ request # Malformed /\ got[1] = MSG_JOIN_GROUP
               /\ \E ip \in Ips, port \in Ports :
                    Send(MSG_GROUP_INFO, InfoValue(ip, port))
  /\ pc' = "client"
  /\ UNCHANGED <<asked, typed, fields, told>>

-----------------------------------------------------------------------------
(***************************************************************************)
(* The client: deserialize_msg with a length of eight bits, and            *)
(* parse_group_info.                                                       *)
(***************************************************************************)
\* -1, or the value.
deserialize_msg(buf, len) ==
  IF len < 2 \/ buf[2] > len - 2 THEN <<"error">> ELSE <<"value", SubSeq(buf, 3, 2 + buf[2])>>

\* Seeded fault: the low byte of the port first.
Port_LowFirst(hi, lo) == lo * 256 + hi

\* ntohs
Port(hi, lo) == hi * 256 + lo

\* The address takes what its length says; what comes after the port is not looked at.
parse_group_info(v) ==
  IF Len(v) < 3 \/ uint8(1 + v[1] + 2) > Len(v) \/ v[1] >= MaxIp THEN <<"error">>
  ELSE <<"info", SubSeq(v, 2, 1 + v[1]), Port(v[v[1] + 2], v[v[1] + 3])>>

net_send_recv_returns ==
  /\ pc = "client"
  /\ Whole
  /\ LET reply == deserialize_msg(got, uint8(2 + got[2]))
     IN  told' = IF reply # <<"error">> /\ got[1] = MSG_GROUP_INFO THEN parse_group_info(reply[2])
                 ELSE reply
  /\ pc' = "told"
  /\ UNCHANGED <<asked, typed, fields, value, out, wire, got, parsed>>

WireInit ==
  /\ pc = "menu"
  /\ asked = << >> /\ typed = << >> /\ fields = << >> /\ value = << >>
  /\ out = << >> /\ wire = << >> /\ got = << >>
  /\ parsed = Malformed /\ told = << >>

\* The handler of the menu returns, and its locals are gone.
back_to_menu ==
  /\ pc = "told"
  /\ pc' = "menu"
  /\ asked' = << >> /\ typed' = << >> /\ fields' = << >> /\ value' = << >>
  /\ out' = << >> /\ wire' = << >> /\ got' = << >>
  /\ parsed' = Malformed /\ told' = << >>

Exchange ==
  write_some \/ read_some \/ dispatch_message \/ net_send_recv_returns \/ back_to_menu

WireNext ==
  \/ /\ pc = "menu"
     /\ \/ \E s, t \in Strings(Chars, MaxLine) : build_auth_msg(s, t)
        \/ \E s \in Strings(Chars, MaxLine) : build_group_msg(s)
        \/ build_simple_msg \/ Raw
  \/ Exchange

\* TCP delivers and a process that can go on does; nobody has to type.
WireFairness == WF_wirevars(Exchange)
WireSpec == WireInit /\ [][WireNext]_wirevars /\ WireFairness

-----------------------------------------------------------------------------
(***************************************************************************)
(* Properties.                                                             *)
(***************************************************************************)
\* Whatever the pieces, the server takes a request of the shipped client for the
\* fields it was built from, and the fields are the lines as they were typed, unless
\* one was too long for its buffer.
Shipped == fields # <<"raw">>
Limit(k) == IF Len(typed) = 1 THEN MaxGroup ELSE IF k = 1 THEN MaxUser ELSE MaxPass
Fit == \A k \in DOMAIN typed : Len(typed[k]) + 1 < Limit(k)

RequestsArriveAsTyped ==
  pc = "client" /\ Shipped => parsed = fields /\ (Fit => fields = typed)

\* The server accepts a value if and only if a builder makes it, and takes it for what
\* it was made of (up to a NUL, where a C string ends): no byte is left over, counted
\* twice or read from beyond the value.  The client does not look beyond a reply
\* either, although the length it expects wraps at eight bits.
Made(v, t) ==
  CASE t = MSG_REGISTER ->
         {m \in Strings(RawBytes \cup Chars, MaxUser - 1) \X Strings(RawBytes \cup Chars, MaxPass - 1) :
            << >> \notin {m[1], m[2]} /\ v = AuthValue(m[1], m[2])}
    [] t = MSG_JOIN_GROUP ->
         {<<name>> : name \in {n \in Strings(RawBytes \cup Chars, MaxGroup - 1) \ {<< >>} :
                                 v = GroupValue(n)}}
    [] OTHER -> {}

ParsersAreStrict ==
  /\ pc = "client" =>
       {parsed} \ {Malformed} = {[k \in DOMAIN m |-> CString(m[k])] : m \in Made(asked[2], asked[1])}
  /\ \A v \in Strings(RawBytes, MaxIp + 1) :
       parse_group_info(v) # <<"error">> => v[1] + 3 <= Len(v) /\ v[1] < MaxIp

\* The reply is understood as it was meant: what the client has is what the server sent.
RepliesArrive ==
  pc = "told" =>
    /\ told[1] # "error"
    /\ told[1] = "value" => value = told[2]
    /\ told[1] = "info" => value = InfoValue(told[2], told[3])

\* Every exchange ends: the lengths that are announced are those that are sent, also
\* as uint8_t, so nobody waits for a byte that does not come.
Answered == pc # "menu" ~> pc = "menu"
=============================================================================
