----------------------------- MODULE XlinkConfig -----------------------------
(***************************************************************************)
(* What the gateway remembers (xsdk_config.c, with the operations of       *)
(* xlink_process_tcp_data.c, xlinkv4Udp.c, xlink_tcp_client.c, xlink_net.c *)
(* and XDevice.c that change it): the copy xsdk_flash in memory, the flags *)
(* g_xlink_info.config, and config.ini.  The starting thread reads the     *)
(* file; then UDPWorkThread, and TcpWorkThread, change the copy and save   *)
(* it by reading the file, truncating it and writing it again.  The power  *)
(* may fail at any time.                                                   *)
(***************************************************************************)
EXTENDS IniFile

CONSTANTS Names,      \* device names an app gives
          Keys,       \* access keys an app gives
          MaxOps,     \* bound: changes
          MaxStarts,  \* bound: starts of the gateway
          MaxFail     \* bound: openings of config.ini for writing that fail

\* Each is known by the first byte of its field; the subscription key is the number after the access key.
ASSUME ConfigAssumption ==
    /\ Names \subseteq 0..255 /\ Keys \subseteq 0..254
    /\ MaxStarts \in 1..255 /\ MaxOps \in Nat /\ MaxFail \in Nat

VARIABLES ini,      \* config.ini
          flash,    \* xsdk_flash
          info,     \* g_xlink_info.config
          gid,      \* g_GatewayID
          th,       \* the threads: inside write_profile_string, or idle
          boot,     \* how far ft_xlink_gateway_init has come
          told,     \* what the cloud, an app or a sub-device was told last, 0 for nothing
          excused,  \* the file was cut by the power, written by two threads at once, or not opened
          ops, starts, fails

cvars == <<ini, flash, info, gid, th, boot, told, excused, ops, starts, fails>>

Thread     == {"main", "udp", "tcp"}
SdkKey     == "Xlink.v4sdk.cofnig"
NoNumber   == 255            \* the low byte of -1
Check      == 77             \* of the md5 of product id, MAC and product key
FirstName  == 1              \* "xlink_dev"
LongName   == 200            \* a name that does not fit
Version    == 1              \* wifisoftVersion
Idle       == [pc |-> "idle"]
NoFlags    == [act |-> 0, upg |-> 0, app |-> 0, id |-> 0, ver |-> 0]
Nothing    == [gid |-> 0, key |-> 0, name |-> 0, id |-> 0, upg |-> 0, domain |-> 0]
Zeroed     == [sdk |-> NoFlags, name |-> 0, auth |-> 0, check |-> 0, key |-> 0, sub |-> 0, domain |-> 0]

\* The first byte of every field of saveBuffer, xored with the key byte of its offset (0, 1, 5, 7, 23,
\* 55, 77, 81 and 85, modulo 32).
m_key == <<35, 104, 49, 85, 53, 53, 38, 41, 81>>
Bit(x, w) == (x \div w) % 2
Xor(x, y) ==
    LET at(w) == w * ((Bit(x, w) + Bit(y, w)) % 2)
    IN  at(1) + at(2) + at(4) + at(8) + at(16) + at(32) + at(64) + at(128)
Xored(b) == [i \in DOMAIN m_key |-> IF i \in DOMAIN b THEN Xor(b[i], m_key[i]) ELSE m_key[i]]

Pack(x) == Xored(<<x.sdk.act + 2 * x.sdk.upg + 8 * x.sdk.app, x.sdk.id, x.sdk.ver, x.name, x.auth, x.check, x.key, x.sub, x.domain>>)
Unpack(b) ==
    LET u == Xored(b)
    IN  [sdk    |-> [act |-> u[1] % 2, upg |-> (u[1] \div 2) % 2, app |-> (u[1] \div 8) % 2, id |-> u[2], ver |-> u[3]],
         name   |-> u[4], auth |-> u[5], check |-> u[6], key |-> u[7], sub |-> u[8], domain |-> u[9]]

Saved(f) == Unpack(XDReadBase64Decode(SdkKey, f))
Erased == [Zeroed EXCEPT !.key = NoNumber, !.sub = NoNumber, !.check = Check]
\* What a start would find in a file.
Kept(f) == IF Saved(f).check = Check THEN Saved(f) ELSE Erased

ConfigInit ==
    /\ \E v \in {<<>>, <<SectionLine(Section)>>, <<EmptyLine, SectionLine(Section), EntryLine("gatewayid", <<9>>)>>} : ini = v
    /\ flash = Zeroed /\ info = NoFlags /\ gid = 0
    /\ th = [t \in Thread |-> Idle]
    /\ boot = "id" /\ told = Nothing /\ excused = FALSE
    /\ ops = 0 /\ starts = 1 /\ fails = 0

-----------------------------------------------------------------------------
(* write_profile_string, in the steps another thread and the power may     *)
(* come between.  promise is what the caller tells when it returns.        *)

Busy(t) == th[t].pc # "idle"
Tells(promise, t) == [f \in DOMAIN t |-> IF f \in DOMAIN promise THEN promise[f] ELSE t[f]]
Write(t, k, v, promise) ==
    /\ ~Busy(t)
    /\ th' = [th EXCEPT ![t] = [pc |-> "load", k |-> k, v |-> v, promise |-> promise]]
    /\ excused' = (excused \/ \E u \in Thread \ {t} : Busy(u))

xsdk_config_save(t, x, promise) == Write(t, SdkKey, base64_encode(Pack(x)), promise)

load_ini_file(t) ==
    /\ th[t].pc = "load"
    /\ th' = [th EXCEPT ![t] = [pc |-> "open", file |-> write_profile_string(Section, th[t].k, th[t].v, ini), promise |-> th[t].promise]]
    /\ UNCHANGED <<ini, flash, info, gid, boot, told, excused, ops, starts, fails>>

fopen(t) ==
    /\ th[t].pc = "open"
    /\ ini' = <<>>
    /\ th' = [th EXCEPT ![t].pc = "write"]
    /\ UNCHANGED <<flash, info, gid, boot, told, excused, ops, starts, fails>>

\* No caller looks at the result.
fopenFails(t) ==
    /\ th[t].pc = "open" /\ fails < MaxFail
    /\ th' = [th EXCEPT ![t] = Idle]
    /\ told' = Tells(th[t].promise, told)
    /\ excused' = TRUE /\ fails' = fails + 1
    /\ UNCHANGED <<ini, flash, info, gid, boot, ops, starts>>

fputs(t) ==
    /\ th[t].pc = "write"
    /\ ini' = th[t].file
    /\ th' = [th EXCEPT ![t] = Idle]
    /\ told' = Tells(th[t].promise, told)
    /\ UNCHANGED <<flash, info, gid, boot, excused, ops, starts, fails>>

-----------------------------------------------------------------------------
(* The start.                                                              *)

\* A missing gateway id is made from the time of day.
CreateGateId ==
    /\ boot = "id" /\ XDReadString("gatewayid", ini) = NotFound
    /\ gid' = 10 + starts
    /\ Write("main", "gatewayid", <<gid'>>, <<>>)
    /\ boot' = "sdk"
    /\ UNCHANGED <<ini, flash, info, told, ops, starts, fails>>

ReadGateId ==
    /\ boot = "id" /\ XDReadString("gatewayid", ini) # NotFound
    /\ gid' = XDReadString("gatewayid", ini)[1]
    /\ boot' = "sdk"
    /\ UNCHANGED <<ini, flash, info, th, told, excused, ops, starts, fails>>

\* The core logs the sub-devices in under the gateway id (XGInit) before the SDK is started.  A
\* configuration of another product, or none, is erased.
xsdk_config_init ==
    /\ boot = "sdk" /\ ~Busy("main")
    /\ told' = [told EXCEPT !.gid = gid]
    /\ boot' = "data"
    /\ IF Saved(ini).check = Check
       THEN flash' = Saved(ini) /\ UNCHANGED <<th, excused>>
       ELSE flash' = Erased /\ xsdk_config_save("main", Erased, <<>>)
    /\ UNCHANGED <<ini, info, gid, ops, starts, fails>>

XlinkSdkDataInit ==
    /\ boot = "data" /\ ~Busy("main")
    /\ info' = flash.sdk
    /\ boot' = "name"
    /\ UNCHANGED <<ini, flash, gid, th, told, excused, ops, starts, fails>>

XlinkSetDeviceName ==
    /\ boot = "name"
    /\ boot' = "threads"
    /\ IF info.app = 1 THEN UNCHANGED <<flash, th, excused>>
       ELSE /\ flash' = [flash EXCEPT !.name = FirstName]
            /\ xsdk_config_save("main", flash', <<>>)
    /\ UNCHANGED <<ini, info, gid, told, ops, starts, fails>>

\* After a loss it excuses, the gateway goes on with what it found, once its writes succeed.
GateId(f) == IF XDReadString("gatewayid", f) = NotFound THEN 0 ELSE XDReadString("gatewayid", f)[1]
OnDisk(f) ==
    [gid |-> GateId(f), key |-> 0, name |-> 0, id |-> Kept(f).sdk.act * Kept(f).sdk.id,
     upg |-> Kept(f).sdk.upg, domain |-> Kept(f).domain]
XDeviceStart ==
    /\ boot = "threads" /\ ~Busy("main")
    /\ boot' = "running"
    /\ told' = IF excused THEN OnDisk(ini) ELSE told
    /\ excused' = (excused /\ (Kept(ini) # flash \/ GateId(ini) # gid))
    /\ UNCHANGED <<ini, flash, info, gid, th, ops, starts, fails>>

PowerFails ==
    /\ starts < MaxStarts
    /\ starts' = starts + 1
    /\ excused' = (excused \/ \E t \in Thread : th[t].pc = "write")
    /\ th' = [t \in Thread |-> Idle]
    /\ flash' = Zeroed /\ info' = NoFlags /\ gid' = 0 /\ boot' = "id"
    /\ UNCHANGED <<ini, told, ops, fails>>

-----------------------------------------------------------------------------
(* The operations of UDPWorkThread, one at a time, and of TcpWorkThread.   *)

Ready(t) == boot = "running" /\ ~Busy(t) /\ ops < MaxOps
Saves(t, x, promise) ==
    /\ ops' = ops + 1
    /\ flash' = x
    /\ xsdk_config_save(t, x, promise)
    /\ UNCHANGED <<ini, gid, boot, told, starts, fails>>

\* The name an app gives is kept over a restart only with the flag.
AppNameUnflagged(n) ==
    /\ Ready("udp")
    /\ info' = info
    /\ Saves("udp", [flash EXCEPT !.name = n, !.sdk = info'], [name |-> n])

XlinkSdkAppSetDeviceName(n) ==
    /\ Ready("udp")
    /\ info' = [info EXCEPT !.app = 1]
    /\ Saves("udp", [flash EXCEPT !.name = n, !.sdk = info'], [name |-> n])

\* A name of 17 bytes or more is acknowledged all the same.
xlink_process_tcp_set_V2(n) ==
    IF n = LongName THEN Ready("udp") /\ UNCHANGED cvars ELSE XlinkSdkAppSetDeviceName(n)

\* A key that is set stays; with a key goes a new subscription key.
SetAccessKey(k) ==
    /\ Ready("udp") /\ flash.key = NoNumber
    /\ Saves("udp", [flash EXCEPT !.key = k, !.sub = k + 1], [key |-> k])
    /\ UNCHANGED info

\* A phone that knows the subscription key is told the access key; one that asks for the state is told
\* the name.
xlink_process_tcp_subscribe_V3 ==
    /\ Ready("udp") /\ flash.sub # NoNumber
    /\ told' = [told EXCEPT !.key = flash.key]
    /\ UNCHANGED <<ini, flash, info, gid, th, boot, excused, ops, starts, fails>>

xlink_process_tcp_probe_V2 ==
    /\ Ready("udp")
    /\ told' = [told EXCEPT !.name = flash.name]
    /\ UNCHANGED <<ini, flash, info, gid, th, boot, excused, ops, starts, fails>>

\* The cloud gives the device id and the authorisation with which it logs in from now on; an
\* empty authorisation is stored like any other.
Activated(auth) ==
    /\ Ready("udp") /\ info.act = 0
    /\ info' = [info EXCEPT !.act = 1, !.id = starts]
    /\ Saves("udp", [flash EXCEPT !.auth = auth, !.sdk = info'], [id |-> starts])

\* A login that finds no authorisation makes the gateway ask for activation again.
LoginWithoutAuth ==
    /\ Ready("udp") /\ info.act = 1 /\ flash.auth = 0
    /\ info' = [info EXCEPT !.act = 0]
    /\ Saves("udp", [flash EXCEPT !.sdk = info'], [id |-> 0])

\* A newer firmware is noted; otherwise what was noted is reported (xlinkSendUpgrade) and cleared.
xlink_process_tcp_upgrade(v) ==
    /\ Ready("udp")
    /\ info' = [info EXCEPT !.upg = IF v <= Version THEN 0 ELSE 1, !.ver = Version]
    /\ Saves("udp", [flash EXCEPT !.sdk = info'], [upg |-> info'.upg])

Redirected ==
    /\ Ready("udp") /\ flash.domain = 0
    /\ Saves("udp", [flash EXCEPT !.domain = 1], [domain |-> 1])
    /\ UNCHANGED info

\* The connecting thread forgets a server that did not answer.
DomainForgotten ==
    /\ Ready("tcp") /\ flash.domain = 1
    /\ Saves("tcp", [flash EXCEPT !.domain = 0], [domain |-> 0])
    /\ UNCHANGED info

\* Keys and activation go, the name stays.
XlinkReSetSDK ==
    /\ Ready("udp")
    /\ info' = [info EXCEPT !.act = 0]
    /\ Saves("udp", [flash EXCEPT !.key = NoNumber, !.sub = NoNumber, !.sdk.act = 0], [key |-> 0, id |-> 0])

ConfigNext ==
    \/ \E t \in Thread : load_ini_file(t) \/ fopen(t) \/ fopenFails(t) \/ fputs(t)
    \/ CreateGateId \/ ReadGateId \/ xsdk_config_init \/ XlinkSdkDataInit \/ XlinkSetDeviceName \/ XDeviceStart
    \/ PowerFails
    \/ \E n \in Names \cup {LongName} : xlink_process_tcp_set_V2(n)
    \/ \E k \in Keys : SetAccessKey(k)
    \/ xlink_process_tcp_subscribe_V3 \/ xlink_process_tcp_probe_V2
    \/ (\E auth \in {0, 1} : Activated(auth)) \/ LoginWithoutAuth
    \/ \E v \in {Version, Version + 1} : xlink_process_tcp_upgrade(v)
    \/ Redirected \/ DomainForgotten \/ XlinkReSetSDK

ConfigSpec == ConfigInit /\ [][ConfigNext]_cvars

-----------------------------------------------------------------------------
\* What the gateway, or an app, was told fits what a start would find in a file.
Agrees(t, f) ==
    /\ t.gid \in {0, GateId(f)}
    /\ t.key \in {0, Kept(f).key}
    /\ t.name \in {0, Kept(f).name}
    /\ t.id = OnDisk(f).id
    /\ t.upg = Kept(f).sdk.upg
    /\ t.domain = Kept(f).domain

\* What the gateway told - its id, the access key, its name, the activation, a firmware under way, its
\* server - is what config.ini holds, whatever sequence of changes, saves (xsdk_config_save) and power
\* failures went before, except while the file is being written and after a loss the design admits (excused).
SettingsSurvive == excused \/ (\E t \in Thread : th[t].pc = "write") \/ Agrees(told, ini)
=============================================================================
