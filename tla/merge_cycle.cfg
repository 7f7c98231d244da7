SPECIFICATION Spec
CONSTANTS
    a = a  b = b  c = c  ea = ea  eb = eb  ec = ec
    None = None
    Users = {a, b}
    Pairs <- Mutual
    Clients = {}
    Rows = {}
    Left = {}
    Passkeys = {}
    Emails = {ea, eb}
    Tokens = {}
    Eligs = {}
    Dates = {0, 1}
    MailOf <- Mail
    Confirmers = {p1, p2}
    Requests = {}
    Recs = {r1, r2}
    Reversals = FALSE
    MaxGen = 0
SYMMETRY IdSymmetry
CHECK_DEADLOCK FALSE
INVARIANT NoRowUnderTombstone
