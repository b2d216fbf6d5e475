-------------------------------- MODULE Ipmi --------------------------------
(***************************************************************************)
(* How the ipmi-agent answers a command: its completion code and data.     *)
(* A byte whose value the tool has no use for is 1000 * record + place.    *)
(***************************************************************************)
EXTENDS Naturals, Sequences

\* The length of a sensor's name and its unit: degrees (1) or RPM (18).
Sensors == <<[name |-> 11, unit |-> 1], [name |-> 8, unit |-> 1],
             [name |-> 15, unit |-> 1], [name |-> 9, unit |-> 18]>>

\* The header is five bytes long; its last is the length of the rest.
Header == 5
CreateFullSensorRecord(id, sensor) ==
    [k \in 1..(Header + 43 + sensor.name) |->
        CASE k = 5 -> 43 + sensor.name
          [] k = Header + 3 -> id         \* the sensor's number
          [] k = Header + 17 -> sensor.unit
          [] OTHER -> 1000 * id + k]

SdrRepo == [i \in 1..Len(Sensors) |-> CreateFullSensorRecord(i, Sensors[i])]

Answer(code, data) == [code |-> code, data |-> data]
LastRecord == 65535

\* Past the end of a record there are zeros; one byte early, for a mutant.
ByteButLast(record, p) == IF p < Len(record) THEN record[p] ELSE 0
ByteOf(record, p) == IF p <= Len(record) THEN record[p] ELSE 0

GetSdr(rid, off, cnt) ==
    LET i == IF rid = 0 THEN 1 ELSE rid
    IN IF i > Len(SdrRepo) THEN Answer(203, <<>>)
       ELSE Answer(0, <<IF i = Len(SdrRepo) THEN LastRecord ELSE i + 1>>
                        \o [k \in 1..cnt |-> ByteOf(SdrRepo[i], off + k)])

\* Commands that open a session, describe the repository or end it.
Plain == {"capabilities", "challenge", "activate", "privilege", "guid", "device",
          "reserve", "close"}

HandlePacket(ask) ==
    CASE ask.cmd \in Plain -> Answer(0, <<>>)
      [] ask.cmd = "dcmi guid" -> Answer(193, <<>>)
      [] ask.cmd = "repository" -> Answer(0, <<Len(SdrRepo)>>)
      [] ask.cmd = "sdr" -> GetSdr(ask.rid, ask.off, ask.cnt)
      [] ask.cmd = "reading" -> Answer(0, <<IF ask.sensor = 4 THEN 100 ELSE 38>>)
      [] OTHER -> Answer(193, <<>>)
=============================================================================
