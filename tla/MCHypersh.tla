----------------------------- MODULE MCHypersh -----------------------------
(* A small instance of Hypersh: command lines and what each asks for. *)
EXTENDS Hypersh, TLC

Vcpus == Permutations(VCPU)

Asks(verb, args, options) == [verb |-> verb, args |-> args, opts |-> options]

Dashed == {"-a5", "-k", "-t"}

Text ==
  (<<"trace", "mode", "detailed">>  :> Asks("mode", <<"detailed">>, {})) @@
  (<<"trace", "stop">>              :> Asks("stop", <<>>, {})) @@
  (<<"trace", "magic">>             :> Asks("nothing", <<>>, {})) @@
  (<<"mcount", "-a5", "start">>     :> Asks("start", <<>>, {<<"-a5">>})) @@
  (<<"mcount", "start", "-a", "5">> :> Asks("start", <<>>, {<<"-a", "5">>})) @@
  (<<"mcount", "stop">>             :> Asks("stop", <<>>, {})) @@
  (<<"mcount", "-t", "x", "tag">>   :> Asks("tag", <<"x">>, {})) @@
  (<<"pmem", "start", "-k", "-i", "5">> :> Asks("start", <<>>, {<<"-k">>, <<"-i", "5">>})) @@
  (<<"slomo", "-r", "2">>           :> Asks("start", <<>>, {<<"-r", "2">>})) @@
  (<<"slomo", "stop">>              :> Asks("stop", <<>>, {})) @@
  (<<"debug", "pmem", "stop">>      :> Asks("stop", <<>>, {})) @@
  (<<"p", "text">>                  :> Nothing)

ASSUME TextAsWritten == AsWritten
=============================================================================
