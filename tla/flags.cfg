SPECIFICATION CommandSpec
INVARIANTS OptionsObeyed
