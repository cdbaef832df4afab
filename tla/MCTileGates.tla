---------------------------- MODULE MCTileGates -----------------------------
(* Model checking of TileGates: romm, with a bridge whose literal is        *)
(* exempt, and home-assistant, which takes the host's network beside a port. *)
EXTENDS TileGates, TLC

CONSTANTS p1, p2

MCSvcs    == {"app", "romm-db-bridge"}
MCNames   == {"data", "cache", "/etc/rasputin", "/mnt", ".data"}
MCNumbers == {80, 8084}
MCKeys    == {<<"LEGACY", "DB", "PASSWORD">>, <<"API", "KEY">>, <<"KEYBOARD">>}
MCOptions == {"", "host", "service:", "NET_ADMIN", "unconfined"}
Words     == {"PASSWORD"}
Exempted  == {<<"romm", "romm-db-bridge", <<"LEGACY", "DB", "PASSWORD">>>>}

Granted(key, value) == [key |-> key, value |-> value]

NoGrant == {Granted("network_mode", "service:")}
Root    == {Granted("privileged", "")}
Trusted == {Granted("bind", "/etc/rasputin")}

Literally(svc, key, style) ==
  [svc |-> svc, key |-> key, style |-> style, value |-> "literal"]

Mounting(form, kind, name) ==
  [svc |-> "app", form |-> form, kind |-> kind, name |-> name]

Keeping(name, backing) == [name |-> name, backing |-> backing]

Publish(host, number) ==
  [svc |-> "app", form |-> "text", host |-> host, published |-> number,
   container |-> 80]

Take(key, spelling, value) ==
  [svc |-> "app", key |-> key, spelling |-> spelling, value |-> value]

Romm ==
  [json |-> "tile", status |-> "available", web |-> 8084, tier |-> "",
   why |-> "", hardware |-> FALSE, volumes |-> {"data"}, grants |-> {},
   requires |-> {}, extra |-> {}, compose |-> "stack",
   images |-> [svc : MCSvcs, image : {"pinned"}], top |-> {Keeping("data", "own")},
   mounts |-> {Mounting("short", "name", "data")},
   ports |-> {Publish("127.0.0.1", 8084)},
   env |-> {Literally("romm-db-bridge", <<"LEGACY", "DB", "PASSWORD">>,
                      "mapping"),
            Literally("app", <<"KEYBOARD">>, "list")},
   options |-> {}]

HomeAssistant ==
  [Romm EXCEPT
     !.tier = "elevated", !.why = "reason",
     !.grants = {Granted("network_mode", "host")},
     !.requires = {"privilege-tiers-v1"},
     !.options = {Take("network_mode", "usual", "host")},
     !.images = {[svc |-> "app", image |-> "pinned"]},
     !.env = {}]

Shipped == [romm |-> Romm, homeassistant |-> HomeAssistant]

\* One request may do much to romm, twice.
ContributorEdits ==
  {<<"romm", e[1], e[2]>> : e \in {
    <<"json", "invalid">>, <<"compose", "none">>, <<"extra", "unknown field">>,
    <<"volumes", "cache">>, <<"volumes", ".data">>,
    <<"mounts", Mounting("short", "name", "cache")>>,
    <<"top", Keeping("cache", "host path")>>,
    <<"mounts", Mounting("short", "disguised", ".data")>>,
    <<"mounts", Mounting("short", "padded", "/mnt")>>,
    <<"mounts", Mounting("short", "path", "/mnt")>>,
    <<"mounts", Mounting("volume", "none", "cache")>>,
    <<"mounts", Mounting("bind", "path", "/etc/rasputin")>>,
    <<"ports", Publish("127.0.0.1", 8084)>>, <<"ports", Publish("", 8084)>>,
    <<"ports", [Publish("", 80) EXCEPT !.form = "suffix"]>>,
    <<"env", Literally("app", <<"API", "KEY">>, "list")>>,
    <<"env", Literally("app", <<"API", "KEY">>, "elsewhere")>>,
    <<"options", Take("privileged", "usual", "")>>,
    <<"options", Take("security_opt", "other", "unconfined")>>,
    <<"options", Take("gpus", "usual", "")>>,
    <<"options", Take("network_mode", "usual", "service:")>>,
    <<"images", [svc |-> "app", image |-> "tagged"]>>}}

\* The requests that meet in one tile: one takes the network and the reason
\* away, the other takes a capability and declares it.
MCEdits ==
  (p1 :> (ContributorEdits \cup
     {<<"homeassistant", "options", Take("cap_add", "usual", "NET_ADMIN")>>}))
  @@ (p2 :>
     {<<"homeassistant", "options", Take("network_mode", "usual", "host")>>,
      <<"homeassistant", "why", "">>})

MCPushed ==
  {<<"romm", "env", Literally("app", <<"API", "KEY">>, "mapping")>>}

=============================================================================
