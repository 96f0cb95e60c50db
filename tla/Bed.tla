--------------------------------- MODULE Bed ---------------------------------
(* The bed sensor daemon (leoman_bed).  handle_sensor gathers samples into        *)
(* windows and appends one object per window to a file under /tmp; a signal asks   *)
(* for a report, which a shell script makes of the file and puts on the card;      *)
(* handle_uicmd answers a panel out of the reports.  Signals may come at any       *)
(* time.  The sensor, the panel, cron, the card and beacon are external.           *)
EXTENDS Integers, Sequences, SequencesExt

CONSTANTS MaxNum,    \* MAX_NUM, 60: samples in a window
          MaxTok,    \* bound: pieces in a file
          Nights,    \* the nights beacon may find: the times and the score of the night, sleep_data (s1) and
                     \* sleep_data_2 (s2), the minutes of deep and light sleep, the rates at each hour
          Hours      \* the hours a panel asks for

\* What beacon may find: numbers, or Null, and series of them; rates take two bytes.
Null == -1     \* null in the report, or no number
MaxWord == 65535
Word == 0..MaxWord
Rates == [num : Seq(Word), time : Seq(Int)]
Night == [start : Int, end : Int, score : Int, s1 : Seq(Int), s2 : Seq(Int), deep : Int, light : Int,
          heart_beat : Rates, breath : Rates, move : Rates]
ASSUME NightsAssumption == Nights \subseteq Night

VARIABLES flag,    \* glb_cfg: [cp, gen, start]
          tmp,     \* [day, num, path]: the file of the day under /tmp/leoman, the last one with a number, and file_path
          win,     \* sen_out: the ON_BED bytes of the samples gathered
          bed,     \* [on, last]: aver_ret[ON_BED] and last_on_bed
          card,    \* [mounted, report]: the day's report on the card
          handed,  \* for the properties: what beacon was given last
          panel    \* the panel's command, the number it asks for next, the answers it has and, if all of
                   \* them came out of one report, that report

bedVars == <<flag, tmp, win, bed, card, handed, panel>>

NoPath == "none"
NoRates == [num |-> <<>>, time |-> <<>>]
NoReport == [start |-> Null, end |-> Null, score |-> Null, s1 |-> <<>>, s2 |-> <<>>, deep |-> Null, light |-> Null,
             heart_beat |-> NoRates, breath |-> NoRates, move |-> NoRates]
NoWalk == [cmd |-> 0, num |-> 0, got |-> <<>>, walk |-> NoReport]
Start == [flag |-> [cp |-> FALSE, gen |-> FALSE, start |-> FALSE], bed |-> [on |-> FALSE, last |-> TRUE],
          tmp |-> [day |-> <<>>, num |-> <<>>, path |-> NoPath]]

BedInit ==
  /\ flag = Start.flag /\ tmp = Start.tmp /\ bed = Start.bed /\ win = <<>>
  /\ card = [mounted |-> TRUE, report |-> NoReport] /\ handed = <<>> /\ panel = NoWalk

-----------------------------------------------------------------------------
(* The file *)

\* Mutant: the day's name is taken whether it is there or not.
SameName(d) == [d EXCEPT !.path = "day"]

\* The name of the day, or that name with the next number, which was never used before.
_generate_new_file(d) == IF d.day = <<>> THEN [d EXCEPT !.path = "day"] ELSE [d EXCEPT !.path = "num", !.num = <<>>]

_write_file(d, toks) == [d EXCEPT ![d.path] = @ \o toks]

Begin(d) == _write_file(_generate_new_file(d), <<"head">>)

\* leom_cp_data.sh: without the card nothing; otherwise beacon reads the file, the file goes and the
\* report of the day takes the place of an earlier one.
leom_cp_data(d) == IF card.mounted THEN [d EXCEPT ![d.path] = <<>>] ELSE d

Beacon(d) ==
  IF card.mounted
    THEN handed' = d[d.path] /\ \E n \in Nights : card' = [card EXCEPT !.report = n]
    ELSE UNCHANGED <<handed, card>>

Report(d, more) ==
  /\ Beacon(d)
  /\ tmp' = _write_file(Begin(leom_cp_data(d)), more)
  /\ flag' = [flag EXCEPT !.gen = FALSE, !.cp = @ /\ more = <<>>]

\* Mutant: the last object goes into the closed file with its comma.
WithComma(d) == _write_file(d, <<"obj", "comma", "tail">>)

Closed(d) == _write_file(d, <<"obj", "tail">>)

\* A window's object is appended, after a copy to the card if the alarm asked for one; a report that is
\* asked for takes the object too, and the next file begins with it.
_append2_tmpfile ==
  LET d == IF tmp.path = NoPath THEN Begin(tmp) ELSE tmp IN
  /\ IF flag.gen
       THEN Report(Closed(d), <<"obj", "comma">>)
       ELSE tmp' = _write_file(d, <<"obj", "comma">>) /\ flag' = [flag EXCEPT !.cp = FALSE] /\ UNCHANGED <<handed, card>>

\* Mutant: a timeout is only a timeout.
TimeoutIdle == UNCHANGED <<tmp, flag, handed, card>>

\* The sensor was silent for a second: a report that is asked for is made with the last values.
leom_pre_check_tail_for_report ==
  IF tmp.path # NoPath /\ flag.gen THEN Report(Closed(tmp), <<>>) ELSE UNCHANGED <<tmp, flag, handed, card>>

SensorSilent == leom_pre_check_tail_for_report /\ UNCHANGED <<win, bed, panel>>

\* Nothing before the panel has set the clock; the majority of the samples says whether somebody is on
\* the bed, a draw counts for yes, and an empty bed is recorded once.
leom_handle_sensor_data(w) ==
  LET on == 2 * Cardinality({j \in 1..MaxNum : w[j]}) >= MaxNum IN
  IF ~flag.start THEN UNCHANGED <<flag, tmp, bed, handed, card>>
  ELSE IF ~on /\ ~bed.last THEN bed' = [bed EXCEPT !.on = FALSE] /\ UNCHANGED <<flag, tmp, handed, card>>
  ELSE bed' = [on |-> on, last |-> on] /\ _append2_tmpfile

\* loop_get_sensor_data: a whole sample of seven bytes behind 0xff; one cut short by the next 0xff is dropped.
Sample(b) ==
  LET w == Append(win, b) IN
  /\ tmp.path # NoPath => Len(tmp[tmp.path]) < MaxTok
  /\ IF Len(w) = MaxNum
       THEN win' = <<>> /\ leom_handle_sensor_data(w)
       ELSE win' = w /\ UNCHANGED <<flag, tmp, bed, handed, card>>
  /\ UNCHANGED panel

\* The line fails: handle_sensor opens the port anew, with an empty window.
SensorReopen == win # <<>> /\ win' = <<>> /\ UNCHANGED <<flag, tmp, bed, card, handed, panel>>

\* SIGALRM and SIGUSR1.
Signal(f) == ~flag[f] /\ flag' = [flag EXCEPT ![f] = TRUE] /\ UNCHANGED <<tmp, win, bed, card, handed, panel>>

\* The init script removes the files before the daemon starts again.
Restart ==
  /\ flag' = Start.flag /\ tmp' = Start.tmp /\ bed' = Start.bed /\ win' = <<>>
  /\ UNCHANGED <<card, handed, panel>>

Mount == card' = [card EXCEPT !.mounted = ~@] /\ UNCHANGED <<flag, tmp, win, bed, handed, panel>>

-----------------------------------------------------------------------------
(* The panel *)

\* Command 0x07, whole: the clock is set, samples count from now on.
SetTime == ~flag.start /\ flag' = [flag EXCEPT !.start = TRUE] /\ UNCHANGED <<tmp, win, bed, card, handed, panel>>

\* The bytes of an answer behind its head: the number, the item and the data.
PanelAnswer(num, item, data) == [num |-> num, item |-> item, data |-> data]
Ending == PanelAnswer(0, 238, <<>>)

\* A value that is no number, or too large for its field, is sent as zero.
UpTo(max, x) == IF x \in 0..max THEN x ELSE 0
Number(x) == IF x = Null THEN 0 ELSE x
get_single_char_from_int2(x) == <<x \div 256, x % 256>>

\* The times the sleeper came and went.
__parse_day_circle_onbed(n, r) == PanelAnswer(n, 1, <<Number(r.start), Number(r.end)>>)

__parse_day_circle_score(n, r) == PanelAnswer(n, 7, <<UpTo(255, r.score)>>)

\* Mutant: the second series starts at its second stage.
SkipsOne(n, r) ==
  LET k == n - 2 - Len(r.s1) IN
  CASE r.s1 = <<Null>> -> Ending
    [] r.s1 # <<Null>> /\ k <= 0 -> PanelAnswer(n, UpTo(255, r.s1[n - 2]), <<>>)
    [] OTHER -> IF r.s2 # <<Null>> /\ k < Len(r.s2) THEN PanelAnswer(k, UpTo(255, r.s2[k + 1]), <<>>) ELSE Ending

\* The stage number n - 2 of the night, or the ending.  (A stage's two times are sent as those of the
\* night are.)  The stages of the second series are numbered from 1 again.
__parse_day_circle_sleepdata(n, r) ==
  LET k == n - 2 - Len(r.s1) IN
  CASE r.s1 = <<Null>> -> Ending
    [] r.s1 # <<Null>> /\ k <= 0 -> PanelAnswer(n, UpTo(255, r.s1[n - 2]), <<>>)
    [] OTHER -> IF r.s2 # <<Null>> /\ k <= Len(r.s2) THEN PanelAnswer(k, UpTo(255, r.s2[k]), <<>>) ELSE Ending

\* errzero_return_time_sleep: there is no list of stages, or the number is 0.
errzero == PanelAnswer(0, 0, <<>>)

_parse_day_circle(n, r) ==
  CASE r.s1 = <<>> \/ n = 0 -> errzero
    [] r.s1 # <<>> /\ n = 1 -> __parse_day_circle_onbed(n, r)
    [] r.s1 # <<>> /\ n = 2 -> __parse_day_circle_score(n, r)
    [] OTHER -> __parse_day_circle_sleepdata(n, r)

_parse_month_report(r) ==
  PanelAnswer(0, 0, get_single_char_from_int2(UpTo(MaxWord, r.deep)) \o get_single_char_from_int2(UpTo(MaxWord, r.light)))

\* The rate at the first place where the hour stands; zero if there is none, or if the lists do not match.
_parse_day_common(a, hour) ==
  LET at == {i \in DOMAIN a.time : a.time[i] = hour} IN
  IF Len(a.num) # Len(a.time) \/ at = {} THEN 0 ELSE a.num[Min(at)]

_parse_day_heart(r, hour) == PanelAnswer(hour, 0, get_single_char_from_int2(_parse_day_common(r.heart_beat, hour)))
_parse_day_breath(r, hour) == PanelAnswer(hour, 0, get_single_char_from_int2(_parse_day_common(r.breath, hour)))
_parse_day_movement(r, hour) == PanelAnswer(hour, 0, get_single_char_from_int2(_parse_day_common(r.move, hour)))

parse_report_json(r, cmd, n) ==
  CASE cmd = 2 -> _parse_month_report(r)
    [] cmd = 3 -> _parse_day_circle(n, r)
    [] cmd = 4 -> _parse_day_heart(r, n)
    [] cmd = 5 -> _parse_day_breath(r, n)
    [] cmd = 6 -> _parse_day_movement(r, n)

\* err_resp_hex_2uart: the file cannot be read.
AskNothing ==
  /\ ~card.mounted \/ card.report = NoReport
  /\ panel # NoWalk /\ panel' = NoWalk /\ UNCHANGED <<flag, tmp, win, bed, card, handed>>

\* Command 0x03: the report is read anew each time; the panel goes on from number 1 until the ending.
AskCircle ==
  /\ card.mounted /\ card.report # NoReport
  /\ LET on == panel.cmd = 3 /\ panel.num > 0
         n == IF on THEN panel.num ELSE 1
         a == parse_report_json(card.report, 3, n)
         w == IF on /\ panel.walk # card.report THEN NoReport ELSE card.report
         g == IF on THEN panel.got ELSE <<>>
     IN panel' = IF a \in {Ending, errzero} THEN [cmd |-> 3, num |-> 0, got |-> g, walk |-> w]
                 ELSE [cmd |-> 3, num |-> n + 1, got |-> Append(g, a), walk |-> w]
  /\ UNCHANGED <<flag, tmp, win, bed, card, handed>>

\* Commands 0x02 (the sums of a day of the month) and 0x04 to 0x06 (the rates at an hour).
AskOnce(cmd, hour) ==
  /\ card.mounted /\ card.report # NoReport
  /\ panel' = [cmd |-> cmd, num |-> hour, got |-> <<parse_report_json(card.report, cmd, hour)>>, walk |-> card.report]
  /\ UNCHANGED <<flag, tmp, win, bed, card, handed>>

BedNext ==
  \/ SensorSilent \/ SensorReopen \/ (\E b \in BOOLEAN : Sample(b)) \/ (\E f \in {"cp", "gen"} : Signal(f))
  \/ Restart \/ Mount \/ SetTime \/ AskCircle \/ AskNothing
  \/ AskOnce(2, 0) \/ (\E cmd \in 4..6, hour \in Hours : AskOnce(cmd, hour))

BedSpec == BedInit /\ [][BedNext]_bedVars

-----------------------------------------------------------------------------
\* The stages of a night; without a first series there are none.
Stages(r) == IF r.s1 = <<Null>> THEN <<>> ELSE r.s1 \o IF r.s2 = <<Null>> THEN <<>> ELSE r.s2

\* What beacon is given is one well formed document: a head, objects with commas between them, a tail.
ReportsWellFormed ==
  handed # <<>> =>
    LET n == Len(handed) IN
    /\ n > 2 /\ n % 2 = 1 /\ handed[1] = "head" /\ handed[n] = "tail"
    /\ \A i \in 2..n - 1 : handed[i] = IF i % 2 = 0 THEN "obj" ELSE "comma"

\* A report that is asked for once there are records is made, if the sensor is silent for a second now
\* and then.
RequestsServed == (flag.gen /\ tmp.path # NoPath) ~> ~flag.gen

\* A panel that walks through a night gets its times, its score and all stages of both series in their
\* order, if the report is not replaced meanwhile; a value that is null or too large reads as zero.
WalkComplete ==
  LET r == panel.walk
  IN panel.cmd = 3 /\ panel.num = 0 /\ r # NoReport /\ r.s1 # <<>> =>
       /\ Len(panel.got) = Len(Stages(r)) + 2
       /\ panel.got[1].data = <<IF r.start = Null THEN 0 ELSE r.start, IF r.end = Null THEN 0 ELSE r.end>>
       /\ panel.got[2].data = <<IF r.score \in 0..255 THEN r.score ELSE 0>>
       /\ \A i \in DOMAIN Stages(r) :
            panel.got[i + 2].item = IF Stages(r)[i] \in 0..255 THEN Stages(r)[i] ELSE 0

\* The sums of a day and the rates at an hour are the ones the report has, although they take two bytes;
\* an hour that is not in the report reads as zero, and so do lists that do not match.
ReadingsTruthful ==
  LET r == panel.walk
      Sent(i) == LET b == panel.got[1].data IN 256 * b[i] + b[i + 1]
      a == IF panel.cmd = 4 THEN r.heart_beat ELSE IF panel.cmd = 5 THEN r.breath ELSE r.move
  IN /\ panel.cmd = 2 => (r.deep \in Word => Sent(1) = r.deep) /\ (r.light \in Word => Sent(3) = r.light)
     /\ panel.cmd \in 4..6 =>
          IF panel.num \in Range(a.time) /\ Len(a.num) = Len(a.time)
            THEN \E i \in DOMAIN a.time : a.time[i] = panel.num /\ Sent(1) = a.num[i]
            ELSE Sent(1) = 0

\* A night's walk, and the readings of a day or an hour, show what the report has (parse_report.lua).
NightComplete == WalkComplete /\ ReadingsTruthful
=============================================================================
