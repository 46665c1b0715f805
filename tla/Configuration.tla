--------------------------- MODULE Configuration ---------------------------
(***************************************************************************)
(* The configuration model both loaders fill (src/src/config/model.rs).    *)
(* Left out: auth.method, which is "token" whatever a file says.           *)
(***************************************************************************)
EXTENDS Text

ProxyTypes == {"tcp", "http", "https", "tcpmux", "stcp"}

TextFields == {"name", "localIP", "subdomain", "httpUser", "httpPassword",
               "hostHeaderRewrite", "routeByHTTPUser", "multiplexer", "secretKey"}
ListFields == {"customDomains", "locations", "allowUsers"}
PortFields == {"localPort", "remotePort"}
ProxyFields == TextFields \cup ListFields \cup PortFields \cup {"type", "metadatas"}

VisitorFields == {"name", "type", "secretKey", "serverUser", "serverName",
                  "bindAddr", "bindPort"}

-----------------------------------------------------------------------------
(* An empty text, list or map is the empty sequence; an unset port is 0.   *)
Unset(field) ==
  CASE field \in PortFields \cup {"bindPort"} -> 0
    [] field = "type" -> "tcp"
    [] OTHER -> NoText

DefaultProxy == [field \in ProxyFields |-> Unset(field)]

DefaultConfig ==
  [token |-> NoText, user |-> NoText, serverAddr |-> NoText, serverPort |-> 0,
   metadatasEnabled |-> FALSE, rename |-> FALSE, userDoublePrefix |-> FALSE,
   sshPrivateKey |-> NoText, sshKnownHosts |-> NoText,
   maxForwardConnections |-> 512,
   includes |-> << >>, proxies |-> << >>, visitors |-> << >>]

(* format!("{user}.{value}")                                               *)
Prefixed(user, value) ==
  IF user = NoText THEN value ELSE user \o <<".">> \o value

CompleteProxy(p, user) ==
  [p EXCEPT !.name = Prefixed(user, @),
            !.localIP = IF @ = NoText THEN <<"127.0.0.1">> ELSE @]

CompleteVisitor(v, user) ==
  [v EXCEPT
    !.name = IF @ = NoText THEN @ ELSE Prefixed(user, @),
    !.serverName = IF v.serverUser = NoText /\ @ # NoText THEN Prefixed(user, @) ELSE @]

(* The user is pushed into every visitor, and into a proxy only under the  *)
(* legacy switch.                                                          *)
Complete(c) ==
  [c EXCEPT
    !.serverAddr = IF @ = NoText THEN <<"0.0.0.0">> ELSE @,
    !.serverPort = IF @ = 0 THEN 2200 ELSE @,
    !.proxies = [i \in DOMAIN @ |->
                   CompleteProxy(@[i], IF c.userDoublePrefix THEN c.user ELSE NoText)],
    !.visitors = [i \in DOMAIN @ |-> CompleteVisitor(@[i], c.user)]]

ValidProxy(p) ==
  /\ Trim(p.name) # NoText
  /\ p.type \in {"http", "https", "tcpmux"} =>
       p.subdomain # NoText \/ p.customDomains # << >>
  /\ p.type = "tcpmux" => p.multiplexer = <<"httpconnect">>

ValidVisitor(v) == v.type = <<"stcp">>

Valid(c) ==
  /\ c.proxies # << >> \/ c.visitors # << >>
  /\ \A i \in DOMAIN c.proxies : ValidProxy(c.proxies[i])
  /\ \A i \in DOMAIN c.visitors : ValidVisitor(c.visitors[i])
=============================================================================
