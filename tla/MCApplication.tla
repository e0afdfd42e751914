---------------------------- MODULE MCApplication ----------------------------
(***************************************************************************)
(* Documents for the model: each differs from the first one in what the    *)
(* code of an upload tells apart.                                          *)
(***************************************************************************)
EXTENDS Application

Remote(name) == Obj([name |-> Str(name)])
Local(port) == Obj([port |-> Num(port), hostname |-> Str("h")])
Host(port, remotes, locals) ==
  Obj([port |-> port, remotes |-> Arr(remotes), locals |-> Arr(locals), type |-> Str("GHP")])
Client(port, active) ==
  Obj([port |-> Num(port), active |-> active, remotes |-> Arr(<<Remote("s")>>)])
Provider == Obj([provider |-> Bool(TRUE), remotes |-> Arr(<<Remote("s")>>), locals |-> Arr(<<Local(7)>>)])

Named(name) == Obj([name |-> Str(name)])
Meets(name) == Obj([name |-> Str(name), uniproxies |-> Arr(<<Obj([hostname |-> Str("u")])>>)])
Asks(name) == Obj([name |-> Str(name), uniproxies |-> Arr(<<Local(9)>>)])
OldTls == Obj([name |-> Str("n"), min_tls_protocol |-> Num(11)])

Document(hosts, clients, config) ==
  [parses |-> TRUE,
   doc |-> Obj([hosts |-> Arr(hosts), clients |-> Arr(clients), config |-> config])]

MCDocuments ==
  [base |-> Document(<<Host(Num(1), <<Remote("a")>>, <<Local(5)>>)>>, <<Client(3, Bool(TRUE))>>, Named("n")),
   more |-> Document(<<Host(NumStr("1", 1), <<Remote("b"), Remote("a")>>, <<Local(5)>>),
                       Host(Num(2), <<Remote("a"), Obj([hostname |-> Str("h")])>>, <<Local(5)>>)>>,
                     <<Provider, Client(3, Str("off")), Provider>>, Named("n")),
   moved |-> Document(<<Host(Num(65537), <<Remote("b")>>, <<Local(6)>>), Host(Num(65536), <<Remote("a")>>, <<Local(5)>>)>>,
                      <<Client(4, Num(1))>>, Named("n")),
   twice |-> Document(<<Host(Num(1), <<Remote("a")>>, <<Local(5)>>), Host(Num(1), <<Remote("a")>>, <<Local(6)>>),
                        Host(Num(2), <<>>, <<Local(5)>>)>>, <<>>, Named("n")),
   other |-> Document(<<Host(Num(2), <<Remote("a")>>, <<Local(5)>>)>>, <<>>, Meets("m")),
   meets |-> Document(<<Host(Num(1), <<Remote("a")>>, <<Local(5)>>)>>, <<>>, Asks("n")),
   oldtls |-> Document(<<Host(Num(2), <<Remote("a")>>, <<Local(5)>>)>>, <<>>, OldTls),
   broken |-> [parses |-> FALSE, doc |-> None]]

MCOwn == {[key |-> "good", cert |-> "n"], [key |-> "none", cert |-> "none"],
          [key |-> "none", cert |-> "n"], [key |-> "bad", cert |-> "n"]}
==============================================================================
