SPECIFICATION Spec
CHECK_DEADLOCK FALSE
CONSTANTS
    a = a  b = b  c = c  ea = ea  eb = eb  ec = ec
    None = None
    Users = {a, b, c}
    Pairs <- StarAndChain
    Clients = {x1, x2}
    Rows = {w1}
    Left = {l1}
    Passkeys = {k1}
    Emails = {ea, eb, ec}
    Tokens = {t1, t2}
    Eligs = {e1, e2}
    Dates = {0, 1}
    MailOf <- Mail
    Confirmers = {p1, p2}
    Requests = {q1}
    Recs = {r1, r2}
    Reversals = TRUE
    MaxGen = 1
CONSTRAINT Bound
SYMMETRY IdSymmetry
INVARIANTS SubKept NoRowUnderTombstone SubUnique
PROPERTIES BanSticks ReversalRestores
