------------------------------ MODULE Exports --------------------------------
(***************************************************************************)
(* PDF exports: the jobs people ask for, the tick that prints one through  *)
(* Gotenberg, retention that expires the file, and the download, which     *)
(* looks at the row before it opens the file.  As with clips, a back-off   *)
(* only delays a job.                                                      *)
(***************************************************************************)
EXTENDS Naturals

CONSTANTS
    Pdfs,            \* job ids
    MaxPrints,       \* MAX_ATTEMPTS of the PDF job
    MaxPdfTrouble    \* failures and crashes

ASSUME ExportsAssumption == MaxPrints \in Nat \ {0}

VARIABLES
    export,      \* id -> its ExportJob row
    old,         \* jobs finished more than EXPORT_DAYS ago
    pdf,         \* id -> its .pdf file: "none" or "whole"
    pdfPart,     \* ids with a .pdf.part file
    print,       \* the PDF job
    expire,      \* retention's pass over the exports
    download,    \* the download: "idle", the id whose row it has read, or its end
    pdfTrouble

exportsVars == <<export, old, pdf, pdfPart, print, expire, download, pdfTrouble>>

NoJob == [status |-> "none", attempts |-> 0, filed |-> FALSE]
IdlePrint == [at |-> "idle"]
IdleExpire == [at |-> "idle", rows |-> {}]
IdleDownload == [at |-> "idle"]

ExportsInit ==
    /\ export = [j \in Pdfs |-> NoJob]
    /\ old = {}
    /\ pdf = [j \in Pdfs |-> "none"]
    /\ pdfPart = {}
    /\ print = IdlePrint
    /\ expire = IdleExpire
    /\ download = IdleDownload
    /\ pdfTrouble = 0

Upset(fails) ==
    /\ fails => pdfTrouble < MaxPdfTrouble
    /\ pdfTrouble' = pdfTrouble + (IF fails THEN 1 ELSE 0)

-----------------------------------------------------------------------------

CreateExport(j) ==
    /\ export[j] = NoJob
    /\ export' = [export EXCEPT ![j].status = "QUEUED"]
    /\ UNCHANGED <<old, pdf, pdfPart, print, expire, download, pdfTrouble>>

\* The oldest due job, one at a time.
PdfTick(j) ==
    /\ print.at = "idle" /\ export[j].status = "QUEUED"
    /\ print' = [at |-> "page", id |-> j, attempts |-> export[j].attempts + 1]
    /\ UNCHANGED <<export, old, pdf, pdfPart, expire, download, pdfTrouble>>

Printing(at, outcome) == print' = [at |-> at, id |-> print.id,
                                   attempts |-> print.attempts, outcome |-> outcome]

\* The site settings and the report's tables.
PdfPage(fails) ==
    /\ print.at = "page"
    /\ Upset(fails)
    /\ IF fails THEN Printing("settle", "failed") ELSE Printing("print", "none")
    /\ UNCHANGED <<export, old, pdf, pdfPart, expire, download>>

\* Gotenberg takes the page, refuses it (4xx, which is final) or fails.
PdfPrint(answer) ==
    /\ print.at = "print"
    /\ Upset(answer # "pdf")
    /\ IF answer = "pdf" THEN /\ Printing("store", "done")
                              /\ pdfPart' = pdfPart \cup {print.id}
       ELSE Printing("settle", answer) /\ UNCHANGED pdfPart
    /\ UNCHANGED <<export, old, pdf, expire, download>>

\* The whole answer is in the .part file, or it goes; then it is renamed, and its
\* size read.
PdfStored(outcome) ==
    /\ print.at = "store"
    /\ Upset(outcome # "stored")
    /\ pdfPart' = IF outcome = "not_renamed" THEN pdfPart ELSE pdfPart \ {print.id}
    /\ pdf' = IF outcome \in {"broken", "not_renamed"} THEN pdf
              ELSE [pdf EXCEPT ![print.id] = "whole"]
    /\ Printing("settle", IF outcome = "stored" THEN "done" ELSE "failed")
    /\ UNCHANGED <<export, old, expire, download>>

Finished(row) ==
    IF print.outcome = "done" THEN [row EXCEPT !.status = "DONE", !.filed = TRUE]
    ELSE IF print.outcome = "refused" \/ print.attempts >= MaxPrints
    THEN [row EXCEPT !.status = "FAILED", !.attempts = print.attempts]
    ELSE [row EXCEPT !.attempts = print.attempts]

\* A DONE that cannot be written, or whose answer is lost, is a failed attempt;
\* if that cannot be written either, the job stays due.
PdfSettles(outcome) ==
    /\ print.at = "settle"
    /\ Upset(outcome # "written")
    /\ export' = IF outcome = "refused" THEN export
                 ELSE [export EXCEPT ![print.id] = Finished(export[print.id])]
    /\ IF outcome # "written" /\ print.outcome = "done" THEN Printing("settle", "failed")
       ELSE print' = IdlePrint
    /\ UNCHANGED <<old, pdf, pdfPart, expire, download>>

-----------------------------------------------------------------------------

Ages7Days(j) ==
    /\ j \notin old /\ export[j].status \in {"DONE", "FAILED"}
    /\ old' = old \cup {j}
    /\ UNCHANGED <<export, pdf, pdfPart, print, expire, download, pdfTrouble>>

ExportFilesRead ==
    /\ expire.at = "idle"
    /\ expire' = [at |-> "unlink", rows |-> {j \in old : export[j].status = "DONE"}]
    /\ expire'.rows # {} \/ pdfPart # {}
    /\ UNCHANGED <<export, old, pdf, pdfPart, print, download, pdfTrouble>>

\* A file that cannot be deleted keeps its row.
ExportUnlinked(j, fails) ==
    /\ expire.at = "unlink" /\ j \in expire.rows
    /\ Upset(fails)
    /\ pdf' = IF fails THEN pdf ELSE [pdf EXCEPT ![j] = "none"]
    /\ expire' = [at |-> IF fails THEN "unlink" ELSE "expire", rows |-> expire.rows \ {j},
                  id |-> j]
    /\ UNCHANGED <<export, old, pdfPart, print, download>>

\* An update that fails ends the pass.
ExportExpired(fails) ==
    /\ expire.at = "expire"
    /\ Upset(fails)
    /\ export' = IF fails THEN export
                 ELSE [export EXCEPT ![expire.id].status = "EXPIRED",
                                     ![expire.id].filed = FALSE]
    /\ expire' = IF fails THEN IdleExpire ELSE [at |-> "unlink", rows |-> expire.rows]
    /\ UNCHANGED <<old, pdf, pdfPart, print, download>>

\* A .part file is stale after an hour; printing one takes less.
ExportParts ==
    /\ expire.at = "unlink" /\ expire.rows = {}
    /\ pdfPart' = {j \in pdfPart : print.at = "store" /\ print.id = j}
    /\ expire' = IdleExpire
    /\ UNCHANGED <<export, old, pdf, print, download, pdfTrouble>>

\* file() answers for a DONE job; the controller then sends the file, or 404.
DownloadReads(j) ==
    /\ download.at = "idle" /\ export[j].status = "DONE" /\ export[j].filed
    /\ download' = [at |-> "send", id |-> j]
    /\ UNCHANGED <<export, old, pdf, pdfPart, print, expire, pdfTrouble>>

DownloadSends ==
    /\ download.at = "send"
    /\ download' = [at |-> "sent", id |-> download.id, got |-> pdf[download.id]]
    /\ UNCHANGED <<export, old, pdf, pdfPart, print, expire, pdfTrouble>>

ExportsCrash ==
    /\ Upset(TRUE)
    /\ print' = IdlePrint /\ expire' = IdleExpire /\ download' = IdleDownload
    /\ UNCHANGED <<export, old, pdf, pdfPart>>

-----------------------------------------------------------------------------

PdfJob ==
    \/ \E j \in Pdfs : PdfTick(j)
    \/ \E fails \in BOOLEAN : PdfPage(fails)
    \/ \E outcome \in {"stored", "broken", "not_renamed", "no_size"} : PdfStored(outcome)
    \/ \E outcome \in {"written", "refused", "lost"} : PdfSettles(outcome)
    \/ \E answer \in {"pdf", "refused", "failed"} : PdfPrint(answer)

ExportFiles ==
    \/ ExportFilesRead \/ ExportParts
    \/ \E fails \in BOOLEAN :
          ExportExpired(fails) \/ \E j \in Pdfs : ExportUnlinked(j, fails)

ExportsNext ==
    \/ \E j \in Pdfs : CreateExport(j) \/ Ages7Days(j) \/ DownloadReads(j)
    \/ PdfJob \/ ExportFiles
    \/ DownloadSends \/ ExportsCrash

ExportsSpec == ExportsInit /\ [][ExportsNext]_exportsVars

-----------------------------------------------------------------------------
(* Properties *)

ExportsTypeOK ==
    /\ export \in [Pdfs -> [status : {"none", "QUEUED", "DONE", "FAILED", "EXPIRED"},
                            attempts : 0..MaxPrints, filed : BOOLEAN]]
    /\ old \subseteq Pdfs /\ pdfPart \subseteq Pdfs
    /\ pdf \in [Pdfs -> {"none", "whole"}]

\* A job that offers a download has the whole file for its seven days, and one
\* that expired has none; a download that began in the seven days gets it
\* whole, unless they end meanwhile.
DoneHasFile ==
    /\ \A j \in Pdfs :
          /\ export[j].status = "DONE" /\ j \notin old => pdf[j] = "whole"
          /\ export[j].status = "EXPIRED" => pdf[j] = "none"
    /\ download.at = "sent" => download.got = "whole" \/ download.id \in old

=============================================================================
