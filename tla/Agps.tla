--------------------------------- MODULE Agps ---------------------------------
(* How the 4G daemon gets its position (net4g/src/main2.c, config.c, hash_nvram.c): a   *)
(* thread reads NMEA sentences from the modem's port byte by byte and writes one of      *)
(* fifty to /tmp/agps_info; main reads that file into its hash table and reports from      *)
(* there.  A sentence is four fields here: its name, whether the position is valid, the     *)
(* latitude and the longitude.  The modem, which sends a fixed cycle of sentences, and       *)
(* its port are external.                                                                     *)
EXTENDS Naturals, Sequences

CONSTANTS Cycle,     \* the sentences the modem sends: a sequence of [name, flag]
          Limit,     \* 50: sentences passed over before one is used
          MaxLine,   \* fields that fit into one_line
          Bucket,    \* the chain of the hash table that a name belongs to
          MaxAgUpset \* bound: stalls, unplugged modems and restarts

\* A sentence fits into the line.
ASSUME AgpsAssumption ==
  /\ Cycle \in Seq([name : STRING, flag : STRING]) /\ Cycle # <<>>
  /\ MaxLine \in Nat /\ MaxLine >= 4
  /\ {"latitude", "longitude", "signal"} \subseteq DOMAIN Bucket

VARIABLES src,     \* the modem: [plugged, n, k], field k of sentence n is next (5 is the line end)
          ag,      \* handle_agps: [pc, open, line, valid, limit]
          file,    \* /tmp/agps_info: there and complete or not, and the values it gives
          tab,     \* hash_tb: chains of [name, value]
          rep,     \* the position last reported
          broken,  \* for the properties: the line was interrupted
          agUpsets

agVars == <<src, ag, file, tab, rep, broken, agUpsets>>

Blank == [what |-> "blank", of |-> 0]
Null == [what |-> "NULL", of |-> 0]
NoPos == [latitude |-> Blank, longitude |-> Blank, broken |-> FALSE]
NoInfo == [full |-> FALSE, pos |-> NoPos]
Start == [pc |-> "type", open |-> FALSE, line |-> <<>>, valid |-> FALSE, limit |-> 0]
Empty == [b \in {Bucket[n] : n \in DOMAIN Bucket} |-> <<>>]

AgInit ==
  /\ src = [plugged |-> TRUE, n |-> 1, k |-> 1] /\ ag = Start
  /\ file = NoInfo /\ tab = Empty /\ rep = NoPos /\ broken = FALSE /\ agUpsets = 0

-----------------------------------------------------------------------------
(* The hash table: a chain is searched from its head, where new names are put. *)

Found(t, name) == {i \in 1..Len(t[Bucket[name]]) : t[Bucket[name]][i].name = name}

hash_nvram_get(t, name) ==
  IF Found(t, name) = {} THEN Null ELSE t[Bucket[name]][CHOOSE i \in Found(t, name) : \A j \in Found(t, name) : i <= j].value

hash_nvram_set(t, name, value) ==
  LET b == Bucket[name] IN
  IF Found(t, name) = {} THEN [t EXCEPT ![b] = <<[name |-> name, value |-> value]>> \o @]
  ELSE [t EXCEPT ![b] = [i \in 1..Len(@) |-> IF i \in Found(t, name) THEN [@[i] EXCEPT !.value = value] ELSE @[i]]]

\* Nobody sees a missing value: it reads as an empty one.
nvram_get(t, name) == IF hash_nvram_get(t, name) = Null THEN Blank ELSE hash_nvram_get(t, name)

nvram_set(t, name, value) == hash_nvram_set(t, name, value)

\* A file without its first line changes nothing.
nvram_renew(t, f) ==
  IF ~f.full THEN t
  ELSE nvram_set(nvram_set(t, "latitude", f.pos.latitude), "longitude", f.pos.longitude)

-----------------------------------------------------------------------------
(* handle_agps *)

\* /tmp/modem_type names the port.
WaitType == ag.pc = "type" /\ ag' = [ag EXCEPT !.pc = "top"] /\ UNCHANGED <<src, file, tab, rep, broken, agUpsets>>

\* The loop's head; without a device file, or when the port cannot be opened, it is tried again later.
open_gps_com ==
  /\ ag.pc = "top" /\ ~ag.open /\ src.plugged /\ ag' = [ag EXCEPT !.open = TRUE]
  /\ UNCHANGED <<src, file, tab, rep, broken, agUpsets>>

Field(n, k) == [what |-> CASE k = 1 -> Cycle[n].name [] k = 2 -> Cycle[n].flag [] k = 3 -> "lat" [] k = 4 -> "lon", of |-> n]
Sent == src' = IF src.k = 5 THEN [src EXCEPT !.k = 1, !.n = (src.n % Len(Cycle)) + 1] ELSE [src EXCEPT !.k = @ + 1]

\* Mutant: a new sentence goes on where the line was.
DollarAppends ==
  ag' = [ag EXCEPT !.pc = "top", !.valid = TRUE, !.line = IF Len(@) < MaxLine THEN Append(@, Field(src.n, 1)) ELSE @]

\* '$' starts a line anew, whatever was in it.
Dollar == ag' = [ag EXCEPT !.pc = "top", !.valid = TRUE, !.line = <<Field(src.n, 1)>>]

\* get_agps_char, up to the end of a field.
get_agps_char ==
  /\ ag.pc = "top" /\ ag.open /\ src.plugged /\ src.k < 5 /\ Sent
  /\ IF src.k = 1 THEN Dollar /\ broken' = FALSE
     ELSE IF ag.valid /\ Len(ag.line) = MaxLine THEN ag' = [ag EXCEPT !.pc = "parse"] /\ UNCHANGED broken
     ELSE ag' = [ag EXCEPT !.pc = "top", !.line = IF ag.valid THEN Append(@, Field(src.n, src.k)) ELSE @] /\ UNCHANGED broken
  /\ UNCHANGED <<file, tab, rep, agUpsets>>

LineEnd ==
  /\ ag.pc = "top" /\ ag.open /\ src.plugged /\ src.k = 5 /\ Sent
  /\ ag' = [ag EXCEPT !.pc = IF ag.valid THEN "parse" ELSE "top"]
  /\ UNCHANGED <<file, tab, rep, broken, agUpsets>>

\* Five seconds without a byte: a zero goes into the line, and ends it for the string functions.
Stall ==
  /\ ag.pc = "top" /\ ag.open /\ agUpsets < MaxAgUpset /\ agUpsets' = agUpsets + 1
  /\ ag' = [ag EXCEPT !.pc = "top", !.line = IF ag.valid /\ Len(@) < MaxLine THEN Append(@, [what |-> "zero", of |-> 0]) ELSE @]
  /\ broken' = TRUE
  /\ UNCHANGED <<src, file, tab, rep>>

\* RECONN, or no device file at the loop's head: the port is closed, the line is kept.
ReadError ==
  /\ ag.pc = "top" /\ ag.open /\ ~src.plugged
  /\ ag' = [ag EXCEPT !.pc = "top", !.open = FALSE]
  /\ UNCHANGED <<src, file, tab, rep, broken, agUpsets>>

\* parse_gps: the field at a place between the commas, unless the string ends before it.
parse_gps(line, i) ==
  IF i <= Len(line) /\ \A j \in 1..i : line[j].what # "zero" THEN line[i] ELSE Blank

\* A sentence without a position (the height of GGA is looked up, but its flag is not) leaves the file blank.
Parsed(line) ==
  IF parse_gps(line, 1).what = "RMC" /\ parse_gps(line, 2).what = "A"
  THEN [latitude |-> parse_gps(line, 3), longitude |-> parse_gps(line, 4), broken |-> broken] ELSE NoPos

Passed == [ag EXCEPT !.pc = "top", !.valid = FALSE]

\* parse_var: one sentence of many is used; fopen truncates the file, fclose writes it.
parse_var ==
  /\ ag.pc = "parse"
  /\ IF ag.limit < Limit THEN ag' = [Passed EXCEPT !.limit = @ + 1] /\ UNCHANGED file
     ELSE IF parse_gps(ag.line, 1).what \notin {"RMC", "GGA"} THEN ag' = [Passed EXCEPT !.limit = 0] /\ UNCHANGED file
     ELSE ag' = [ag EXCEPT !.pc = "write", !.limit = 0] /\ file' = NoInfo
  /\ UNCHANGED <<src, tab, rep, broken, agUpsets>>

fclose ==
  /\ ag.pc = "write" /\ file' = [full |-> TRUE, pos |-> Parsed(ag.line)] /\ ag' = Passed
  /\ UNCHANGED <<src, tab, rep, broken, agUpsets>>

-----------------------------------------------------------------------------
(* main and the world *)

\* send_board_info and create_json_board_info: the files are read, and the report made, in one go.
create_json_board_info ==
  LET t == nvram_renew(nvram_set(tab, "signal", Blank), file) IN
  /\ tab' = t
  /\ rep' = [latitude |-> nvram_get(t, "latitude"), longitude |-> nvram_get(t, "longitude"),
             broken |-> IF file.full THEN file.pos.broken ELSE rep.broken]
  /\ UNCHANGED <<src, ag, file, broken, agUpsets>>

\* The modem goes, and comes back in the middle of some sentence.
Unplug ==
  /\ src.plugged /\ agUpsets < MaxAgUpset /\ agUpsets' = agUpsets + 1
  /\ src' = [src EXCEPT !.plugged = FALSE] /\ broken' = TRUE
  /\ UNCHANGED <<ag, file, tab, rep>>

Plug ==
  /\ ~src.plugged /\ src' \in [plugged : {TRUE}, n : 1..Len(Cycle), k : 1..5]
  /\ UNCHANGED <<ag, file, tab, rep, broken, agUpsets>>

\* The daemon is killed and started again; files stay.
AgRestart ==
  /\ agUpsets < MaxAgUpset /\ agUpsets' = agUpsets + 1
  /\ ag' = Start /\ tab' = Empty /\ rep' = NoPos /\ broken' = TRUE
  /\ UNCHANGED <<src, file>>

AgNext ==
  \/ WaitType \/ open_gps_com \/ get_agps_char \/ LineEnd \/ Stall \/ ReadError \/ parse_var \/ fclose
  \/ create_json_board_info \/ Unplug \/ Plug \/ AgRestart

AgSpec == AgInit /\ [][AgNext]_agVars

-----------------------------------------------------------------------------
\* A report has no position, or the latitude and the longitude of one sentence, however reading and
\* writing the file interleave; a sentence in which the port stalled or was opened again may be
\* patched together, since its checksum is not looked at.
PositionWhole ==
  \/ rep.broken
  \/ rep.latitude = Blank /\ rep.longitude = Blank
  \/ rep.latitude.what = "lat" /\ rep.longitude.what = "lon" /\ rep.latitude.of = rep.longitude.of
=============================================================================
