----------------------------- MODULE LogParser ------------------------------
(***************************************************************************)
(* The Zscaler NSS parser as a function of a file, on top of encoding/csv. *)
(*                                                                         *)
(* A file is a header and lines.  A line has the cells it has where no     *)
(* quote is open; `opens` says that the last begins with a quote the line  *)
(* does not close, `closes` which cell ends with the first quote to close  *)
(* one left open above (0: none).  The header is one line, and a quote     *)
(* that opens a cell is not followed by the separator.  Header names are   *)
(* already normalized, and of the sixteen fields those are kept that the   *)
(* reports read.  A cell is Blank, Dash (any of the placeholders NSS       *)
(* writes for an absent value), Junk (text that is no time, address or     *)
(* number) or a number: the minute of a time, an address, a host or a URL  *)
(* by its host (0: none), 1 for a cache hit.                               *)
(***************************************************************************)
EXTENDS Integers, SequencesExt

CONSTANTS Blank, Dash, Junk,
          None    \* nil, and NULL

Value == Int \cup {Blank, Dash, Junk}   \* What a cell can be.

Field == {"ts", "client_ip", "host", "url", "resp_code", "latency_ms", "cache_status"}

(* fieldAliases: the names of a field, the preferred one first (two each).  *)
Aliases == [ts |-> <<"datetime", "eventtime">>, client_ip |-> <<"clientip", "cip">>,
            host |-> <<"host", "hostname">>, url |-> <<"url", "uri">>,
            resp_code |-> <<"respcode", "status">>,
            latency_ms |-> <<"totaltime", "duration">>,
            cache_status |-> <<"cachehit", "cached">>]
NamesOf(f) == {Aliases[f][k] : k \in DOMAIN Aliases[f]}

(* Sniff: two cells of the header name fields.                              *)
Sniff(header) == Cardinality({i \in DOMAIN header : \E f \in Field : header[i] \in NamesOf(f)}) >= 2

(* buildColumnMap: a field's column has the first of its names that occurs, *)
(* 0 for none.                                                              *)
Columns(header, name) == {i \in DOMAIN header : header[i] = name}
Column(header, f) ==
    LET named == {k \in DOMAIN Aliases[f] : Columns(header, Aliases[f][k]) # {}} IN
    IF named = {} THEN 0 ELSE Min(Columns(header, Aliases[f][Min(named)]))

(* csv.Reader's records, with LazyQuotes and any number of fields: an empty *)
(* line is none, and a quote left open takes in the lines that follow, the  *)
(* empty ones too, to one that closes it or to the end of the file.         *)
Line == {l \in [cells : Seq(Value), opens : BOOLEAN, closes : Nat] :
            l.closes <= Len(l.cells) /\ (l.opens => l.closes < Len(l.cells))}

InQuote(lines, k) ==
    \E i \in 1 .. k - 1 : lines[i].opens /\ \A j \in i + 1 .. k - 1 : lines[j].closes = 0
Starts(lines) == {k \in DOMAIN lines : lines[k].cells # <<>> /\ ~InQuote(lines, k)}
LastLine(lines, k) ==
    Min({j \in k .. Len(lines) : j = Len(lines) \/ ~InQuote(lines, j + 1)})

(* The open cell goes on to the closing quote, others follow it; text that  *)
(* runs on is Junk, and as a URL it is of another host.                     *)
Join(v, w) == IF v = Blank THEN w ELSE IF w = Blank THEN v ELSE Junk
TextOf(cells) == IF cells = <<>> THEN Blank ELSE IF Len(cells) = 1 THEN cells[1] ELSE Junk
Extend(row, line) ==
    LET n == IF line.closes = 0 THEN Len(line.cells) ELSE line.closes IN
    [row EXCEPT ![Len(row)] = Join(@, TextOf(SubSeq(line.cells, 1, n)))]
      \o SubSeq(line.cells, n + 1, Len(line.cells))

Record(lines, k) ==
    FoldLeft(Extend, lines[k].cells, SubSeq(lines, k + 1, LastLine(lines, k)))

MutLineNo(lines, k) == k + 1   \* Mutant: the line of the file.
LineNo(lines, k) == 1 + Quantify(Starts(lines), LAMBDA s : s <= k)

Clean(cell) == IF cell = Dash THEN Blank ELSE cell

(* buildEntry's cell: a short row loses its trailing fields.                *)
Cell(header, row, f) ==
    LET i == Column(header, f) IN IF i \in DOMAIN row THEN Clean(row[i]) ELSE Blank

Text(cell) == IF cell = Blank THEN None ELSE cell
ParseTS(cell) == IF cell \in {Blank, Junk} THEN None ELSE cell
ParseIP(cell) == IF cell \in {Blank, Junk} THEN None ELSE cell
ParseInt(cell) ==
    IF cell \in {Blank, Junk} THEN None ELSE IF cell < 0 THEN 0 ELSE cell
HostFromURL(cell) == IF cell \in {Blank, 0} THEN None ELSE cell

Entry(line, ts, ip, host, code, latency, cache) ==
    [line |-> line, ts |-> ts, client_ip |-> ip, host |-> host, resp_code |-> code,
     latency_ms |-> latency, cache_status |-> cache]

BuildEntry(line, row, header) ==
    LET cell(f) == Cell(header, row, f) IN
    Entry(line, ParseTS(cell("ts")), ParseIP(cell("client_ip")),
          IF cell("host") = Blank THEN HostFromURL(cell("url")) ELSE cell("host"),
          ParseInt(cell("resp_code")), ParseInt(cell("latency_ms")),
          Text(cell("cache_status")))

Parsed(e) == e.ts # None \/ e.client_ip # None

(* Parse: the entries, numbered from 2 as records, and the counts.          *)
ParseFile(file) ==
    LET lines == file.lines
        entries == {BuildEntry(LineNo(lines, k), Record(lines, k), file.header)
                    : k \in Starts(lines)} IN
    [entries |-> entries,
     lines |-> 1 + Cardinality(Starts(lines)),
     parsed |-> Cardinality({e \in entries : Parsed(e)})]
=============================================================================
