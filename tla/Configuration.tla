---------------------------- MODULE Configuration ----------------------------
(***************************************************************************)
(* The configuration file: how src/src/cppcms_util.h reads a JSON value,   *)
(* how endpoints are loaded and compared (applutil.cpp), and how           *)
(* proxy_global.cpp turns a document into the lists of hosts and clients:  *)
(* populate_json, unpopulate_json, is_same and is_new_configuration.       *)
(*                                                                         *)
(* A JSON value is a record with a type t.  A string value carries in n    *)
(* the number that mylib::from_string extracts from it (0 when there is    *)
(* none).  The lists are one record:                                       *)
(*   hosts, clients   vector<remotehost_ptr>, vector<baseclient_ptr>       *)
(*   hostids, clientids   static_remote_count, static_local_id             *)
(*   thrown           an exception left the function: nothing after the    *)
(*                    throwing statement is executed, what was done before *)
(*                    it stays done                                        *)
(***************************************************************************)
EXTENDS Integers, Sequences, Functions

CONSTANT PluginTypes        \* the m_type of every registered PluginHandler

None == [t |-> "undefined"]
Num(n) == [t |-> "number", v |-> n]
Str(s) == [t |-> "string", v |-> s, n |-> 0]
NumStr(s, n) == [t |-> "string", v |-> s, n |-> n]
Bool(b) == [t |-> "boolean", v |-> b]
Arr(s) == [t |-> "array", v |-> s]
Obj(f) == [t |-> "object", v |-> f]

find(obj, key) ==
  IF obj.t = "object" /\ key \in DOMAIN obj.v THEN obj.v[key] ELSE None

Items(obj, key) == LET a == find(obj, key) IN IF a.t = "array" THEN a.v ELSE <<>>

\* The elements of a sequence at some of its positions, in its order.
Kept(s, positions) ==
  LET kept[n \in 0 .. Len(s)] ==
        IF n = 0 THEN <<>>
        ELSE IF n \in positions THEN Append(kept[n - 1], s[n]) ELSE kept[n - 1]
  IN  kept[Len(s)]

check_int(obj, key, default) ==
  LET v == find(obj, key)
  IN  CASE v.t = "number" -> v.v
        [] v.t = "string" -> v.n
        [] OTHER -> default

\* The int is assigned to an unsigned short, here and by populate_json.
check_port(obj, key, default) == check_int(obj, key, default) % 65536

check_bool(obj, key, default) ==
  LET v == find(obj, key)
  IN  CASE v.t = "number" -> v.v > 0
        [] v.t = "string" -> v.v \in {"true", "on"}
        [] v.t = "boolean" -> v.v
        [] OTHER -> default

check_string(obj, key, default) ==
  LET v == find(obj, key) IN IF v.t = "string" THEN v.v ELSE default

------------------------------------------------------------------------------
(* Endpoints *)

LocalEndpoint(item, port) ==
  [port |-> check_port(item, "port", port), hostname |-> check_string(item, "hostname", "")]

LocalLoads(item, port) == item.t = "object" /\ LocalEndpoint(item, port).port > 0

RemoteEndpoint(item) ==
  [port |-> check_port(item, "port", 0), hostname |-> check_string(item, "hostname", ""),
   name |-> check_string(item, "name", ""), username |-> check_string(item, "username", ""),
   password |-> check_string(item, "password", "")]

RemoteLoads(item) == item.t = "object" /\ RemoteEndpoint(item).name # ""

\* operator== for two RemoteEndpoints: the port is not compared.
SameRemote(a, b) ==
  \A k \in {"name", "hostname", "username", "password"} : a[k] = b[k]

\* The endpoints of an array that load, in its order.
Locals(item) ==
  LET all == Items(item, "locals")
  IN  Kept([k \in DOMAIN all |-> LocalEndpoint(all[k], 0)], {k \in DOMAIN all : LocalLoads(all[k], 0)})

Remotes(item) ==
  LET all == Items(item, "remotes")
  IN  Kept([k \in DOMAIN all |-> RemoteEndpoint(all[k])], {k \in DOMAIN all : RemoteLoads(all[k])})

Text == STRING \cup {""}        \* a string of the file or the default

\* What the JSON parser makes of a value: integers, strings, sequences.
Parsed(obj, key) ==
  LET v == find(obj, key)
  IN  /\ v.t = "number" => v.v \in Int
      /\ v.t = "string" => v.v \in Text /\ v.n \in Int
      /\ v.t = "boolean" => v.v \in BOOLEAN
      /\ v.t = "array" => v.v \in Seq(Range(v.v))

EndpointParsed(item) ==
  \A key \in {"port", "name", "hostname", "username", "password"} : Parsed(item, key)

ArrayParsed(item, key) ==
  Parsed(item, key) /\ \A k \in DOMAIN Items(item, key) : EndpointParsed(Items(item, key)[k])

ItemParsed(item) ==
  /\ \A key \in {"port", "active", "provider"} : Parsed(item, key)
  /\ ArrayParsed(item, "locals") /\ ArrayParsed(item, "remotes")

\* The values that the functions below read.
DocumentParsed(doc) ==
  /\ \A key \in {"hosts", "clients"} :
       Parsed(doc, key) /\ \A k \in DOMAIN Items(doc, key) : ItemParsed(Items(doc, key)[k])
  /\ Parsed(find(doc, "web"), "port") /\ Parsed(find(find(doc, "config"), "activate"), "port")
  /\ Parsed(find(doc, "config"), "name") /\ ArrayParsed(find(doc, "config"), "uniproxies")

------------------------------------------------------------------------------
(* Hosts and clients *)

Has(remotes, ep) == \E k \in DOMAIN remotes : SameRemote(remotes[k], ep)

Missing(from, remotes) == Kept(from, {k \in DOMAIN from : ~Has(remotes, from[k])})

\* The locals of the item, compared position by position, invalid ones included.
locals_changed(host, item) ==
  LET new == Items(item, "locals")
  IN  \/ find(item, "locals").t # "array"
      \/ Len(new) # Len(host.locals)
      \/ \E k \in DOMAIN new : ~LocalLoads(new[k], 0) \/ LocalEndpoint(new[k], 0) # host.locals[k]

\* is_same(host, item): the port decides; everything else is compared after it.
is_same(host, item) ==
  LET p == check_port(item, "port", 0) IN host.port = p /\ p > 0

\* is_same throws on a remotes that is no array and on a remote without a name.
is_same_throws(host, item) ==
  /\ is_same(host, item)
  /\ \/ find(item, "remotes").t # "array"
     \/ \E k \in DOMAIN Items(item, "remotes") : ~RemoteLoads(Items(item, "remotes")[k])

param_changed(host, item) == host.type # check_string(item, "type", "")

Changed(host, item) == param_changed(host, item) \/ locals_changed(host, item)

\* Fault: ids are positions in the list, given again after an upload.
RemoteProxyHost_SameId(id, port, remotes, locals, type) ==
  [id |-> 1, port |-> port, remotes |-> remotes, locals |-> locals, type |-> type,
   active |-> TRUE, acceptor |-> "closed", running |-> FALSE]

\* The constructor, m_id included.
RemoteProxyHost(id, port, remotes, locals, type) ==
  [id |-> id, port |-> port, remotes |-> remotes, locals |-> locals, type |-> type,
   active |-> TRUE, acceptor |-> "closed", running |-> FALSE]

\* An unknown plugin type gives the standard plugin.
NewHost(id, item) ==
  LET type == check_string(item, "type", "")
  IN  RemoteProxyHost(id, check_port(item, "port", 0), Remotes(item), Locals(item),
                      IF type \in PluginTypes THEN type ELSE "")

add_remotes(host, added) == [host EXCEPT !.remotes = @ \o added]

remove_remotes(host, removed) ==
  [host EXCEPT !.remotes = Missing(@, removed)]

\* Fault: the remotes that were taken out of the item stay on the host.
Updated_KeepsRemoved(host, item) ==
  add_remotes(host, Missing(Remotes(item), host.remotes))

\* A host that is kept gets the remotes of its item.
Updated(host, item) ==
  remove_remotes(add_remotes(host, Missing(Remotes(item), host.remotes)),
                 Missing(host.remotes, Remotes(item)))

BaseClient(id, active, port, remotes, provider, locals) ==
  [id |-> id, active |-> active, port |-> port, remotes |-> remotes, provider |-> provider,
   locals |-> locals, running |-> FALSE]

NewClient(id, item) ==
  LET provider == check_bool(item, "provider", FALSE)
  IN  BaseClient(id, check_bool(item, "active", TRUE),
                 IF provider THEN 0 ELSE check_port(item, "port", 0), Remotes(item),
                 provider, IF provider THEN Locals(item) ELSE <<>>)

\* A port that already has a client is skipped: every provider has port 0.
PopulateClient(lists, item) ==
  LET c == NewClient(lists.clientids + 1, item)
      known == \E k \in DOMAIN lists.clients :
                 lists.clients[k].port = check_port(item, "port", 0)
      made == IF c.provider THEN c.locals # <<>> ELSE c.active /\ c.remotes # <<>>
  IN  IF ~known /\ made
      THEN [lists EXCEPT !.clients = Append(@, c), !.clientids = @ + 1]
      ELSE lists

\* The constructor of RemoteProxyHost throws when the own key or certificate
\* cannot be used.
PopulateHost(lists, item, keyOk) ==
  LET old == {k \in DOMAIN lists.hosts : is_same(lists.hosts[k], item)}
      bad == \E k \in old : is_same_throws(lists.hosts[k], item) \/ Changed(lists.hosts[k], item)
      new == NewHost(lists.hostids + 1, item)
  IN  CASE lists.thrown -> lists
        [] ~lists.thrown /\ bad -> [lists EXCEPT !.thrown = TRUE]
        [] ~lists.thrown /\ ~bad /\ old # {} ->
             [lists EXCEPT !.hosts = [k \in DOMAIN @ |-> IF k \in old THEN Updated(@[k], item) ELSE @[k]]]
        [] OTHER ->
             IF new.remotes = <<>> \/ new.locals = <<>> THEN lists
             ELSE IF ~keyOk THEN [lists EXCEPT !.thrown = TRUE]
             ELSE [lists EXCEPT !.hosts = Append(@, new), !.hostids = @ + 1]

PopulateClients(lists, items) ==
  LET l[n \in 0 .. Len(items)] == IF n = 0 THEN lists ELSE PopulateClient(l[n - 1], items[n])
  IN  l[Len(items)]

PopulateHosts(lists, items, keyOk) ==
  LET l[n \in 0 .. Len(items)] == IF n = 0 THEN lists ELSE PopulateHost(l[n - 1], items[n], keyOk)
  IN  l[Len(items)]

\* populate_json, the part for hosts|clients.
PopulateLists(lists, doc, keyOk) ==
  PopulateHosts(PopulateClients(lists, Items(doc, "clients")), Items(doc, "hosts"), keyOk)

\* is_same for a client always says no: a client is never kept.
is_same_client(client, item) == FALSE

\* Fault: a host whose comparison with an item throws is not kept.
UnpopulateHost_DropsBad(lists, host, doc) ==
  LET items == Items(doc, "hosts")
      same == {k \in DOMAIN items : is_same(host, items[k])}
      last == CHOOSE k \in same : \A j \in same : j <= k
  IN  CASE lists.thrown -> [lists EXCEPT !.hosts = Append(@, host)]
        [] ~lists.thrown /\ (\E k \in same : is_same_throws(host, items[k])) ->
             [lists EXCEPT !.thrown = TRUE]
        [] OTHER -> IF same # {} /\ ~Changed(host, items[last])
                    THEN [lists EXCEPT !.hosts = Append(@, host)] ELSE lists

\* A host is kept when the last item with its port changes neither its plugin
\* nor its locals.  remove_any drops sessions and leaves the list alone.
UnpopulateHost(lists, host, doc) ==
  LET items == Items(doc, "hosts")
      same == {k \in DOMAIN items : is_same(host, items[k])}
      last == CHOOSE k \in same : \A j \in same : j <= k
  IN  CASE lists.thrown -> [lists EXCEPT !.hosts = Append(@, host)]
        [] ~lists.thrown /\ (\E k \in same : is_same_throws(host, items[k])) ->
             [lists EXCEPT !.hosts = Append(@, host), !.thrown = TRUE]
        [] OTHER -> IF same # {} /\ ~Changed(host, items[last])
                    THEN [lists EXCEPT !.hosts = Append(@, host)] ELSE lists

UnpopulateHosts(lists, hosts, doc) ==
  LET l[n \in 0 .. Len(hosts)] == IF n = 0 THEN lists ELSE UnpopulateHost(l[n - 1], hosts[n], doc)
  IN  l[Len(hosts)]

unpopulate_json(lists, doc) ==
  LET items == Items(doc, "clients")
      same == {j \in DOMAIN lists.clients : \E k \in DOMAIN items : is_same_client(lists.clients[j], items[k])}
  IN  UnpopulateHosts([lists EXCEPT !.hosts = <<>>, !.clients = Kept(@, same)], lists.hosts, doc)

------------------------------------------------------------------------------
(* The "config" object *)

\* The ports that are taken where the document gives none.
ActivatePort == 25500
WebPort == 8085

Config(doc) == find(doc, "config")

Uniproxies(doc, port) ==
  {LocalEndpoint(Items(Config(doc), "uniproxies")[k], port) :
     k \in {j \in DOMAIN Items(Config(doc), "uniproxies") :
              LocalLoads(Items(Config(doc), "uniproxies")[j], port)}}

min_tls_protocol(doc) == check_int(Config(doc), "min_tls_protocol", 12)

\* populate_json, the part for web|config: the settings it leaves and whether
\* it throws.  The name stays when the document has none; proxies only are added.
PopulateConfig(settings, doc) ==
  LET c == Config(doc)
      tls == min_tls_protocol(doc) \in 12 .. 13
      port == IF c.t = "object" THEN check_port(find(c, "activate"), "port", ActivatePort) ELSE ActivatePort
      web == check_port(find(doc, "web"), "port", settings.web_port)
      set == [settings EXCEPT !.activate_port = port, !.web_port = web]
  IN  IF c.t # "object" THEN set
      ELSE [set EXCEPT !.name = check_string(c, "name", @),
                       !.uniproxies = IF tls THEN @ \cup Uniproxies(doc, WebPort) ELSE @,
                       !.thrown = ~tls]

\* Fault: only the name decides.
is_new_configuration_NameOnly(settings, doc) ==
  check_string(Config(doc), "name", "") # settings.name

\* Here the port of a uniproxy has no default: one without a port is new.
is_new_configuration(settings, doc) ==
  LET list == find(Config(doc), "uniproxies")
  IN  \/ settings.name = ""
      \/ Config(doc).t # "object"
      \/ check_string(Config(doc), "name", "") # settings.name
      \/ /\ list.t = "array"
         /\ \E k \in DOMAIN list.v :
              ~LocalLoads(list.v[k], 0) \/ LocalEndpoint(list.v[k], 0) \notin settings.uniproxies
      \/ list.t # "array" /\ settings.uniproxies # {}
==============================================================================
