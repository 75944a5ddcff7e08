---------------------------- MODULE MCDataPaths ----------------------------
(* DataPaths on a small instance. *)
EXTENDS DataPaths

Number(n) == [kind |-> "number", tenths |-> n]
Text(n) == [kind |-> "string", length |-> n]
Json(n) == [kind |-> "json", length |-> n]
Null == [kind |-> "other"]

MCParams == {"watts", "bat.temp", "bat_temp", "plan", "mode", "serial_number", "timestamp"}

MCColumnName == [p \in MCParams |-> IF p = "bat.temp" THEN "bat_temp" ELSE p]

MCAdded == "serial_number" :> Text(16) @@ "timestamp" :> [kind |-> "time"]

FittingAnswers == {"watts" :> Number(120), "watts" :> Number(-50) @@ "mode" :> Text(255)}

FractionAnswers == {"watts" :> Number(120), "watts" :> Number(125)}

\* Records that fit each other; a whole number and a fraction; texts at the
\* limits; nested values that grow; two parameters of one column; a null; a
\* number no int64 holds; a time stamp of the device's own.
MCAnswerSets ==
    { FittingAnswers,
      FractionAnswers,
      {"mode" :> Text(255), "mode" :> Text(256)},
      {"plan" :> Json(1025), "plan" :> Json(3073), "plan" :> Json(100)},
      {"plan" :> Json(1024), "plan" :> Json(1025)},
      {"plan" :> Json(63487), "plan" :> Json(64000)},
      {"bat.temp" :> Number(10), "bat_temp" :> Number(20)},
      {"watts" :> Number(10), "bat.temp" :> Number(10) @@ "bat_temp" :> Number(20)},
      {"watts" :> Number(10), "watts" :> Null @@ "mode" :> Text(9)},
      {"watts" :> Number(10), "plan" :> Null @@ "mode" :> Text(9)},
      {"watts" :> Number(990), "watts" :> Number(1000), "watts" :> Number(-1010)},
      {"watts" :> Number(15), "watts" :> Number(20)},
      {"timestamp" :> Text(20) @@ "watts" :> Number(0), "watts" :> Number(0)} }

Object(fields) == [kind |-> "object", fields |-> fields]
String(reads, n) == [kind |-> "string", reads |-> reads, tenths |-> n]

Meter(time, power, out) ==
    Object("time" :> time @@ "E" :> Object("power" :> power @@ "out" :> out))

Entry(source, type, destination, flip) ==
    [Source |-> source, Type |-> type, Destination |-> destination, IfNegative |-> flip]

Power == Entry(<<"E", "power">>, "float64", "power", "out")
Out == Entry(<<"E", "out">>, "float64", "out", "")
Time == Entry(<<"time">>, "time.Time", "time", "")

Noon == String("time", 0)

GoodMessages ==
    { Meter(Noon, Number(-35), Number(0)),
      Meter(Noon, Number(35), Number(5)),
      Meter(Noon, Number(-5), Number(15)),
      Meter(Noon, String("number", -20), String("text", 0)) }

BadMessages ==
    { Object("time" :> Noon @@ "E" :> Object("out" :> Number(1))),
      Object("time" :> Noon @@ "E" :> Number(1)),
      Meter(Null, Number(1), Number(1)) }

PlainMeter == [mapping |-> <<Out, Power, Time>>, messages |-> GoodMessages]

QuietMeter == [mapping |-> <<Out, Power, Time>>, messages |-> {Meter(Noon, Number(-35), Number(0))}]

BadMeter == [mapping |-> <<Out, Power, Time>>, messages |-> BadMessages]

MCMeters ==
    {[mapping |-> m, messages |-> GoodMessages] :
        m \in { <<Power, Out>>,
                <<Out, Power, Entry(<<"E", "out">>, "float64", "power", "power")>>,
                <<Entry(<<"E", "out">>, "float64", "power", ""), Power, Out>>,
                <<Power>>,
                <<Out, Power, Entry(<<"time">>, "string", "power", "")>>,
                <<Out, Entry(<<"E", "power">>, "int64", "power", "out")>>,
                <<Power, Out, Entry(<<"E", "power">>, "int64", "n", "")>>} }
      \cup {PlainMeter, BadMeter}

\* Every meter beside records that fit and records that do not, and all records
\* beside a meter that keeps the process up and one that ends it.
MCHomes ==
    [meter : MCMeters, answers : {FittingAnswers, FractionAnswers}]
      \cup [meter : {QuietMeter, BadMeter}, answers : MCAnswerSets]
============================================================================
